---- MODULE Spec2Model ----
(***************************************************************************)
(* A model of msync (github.com/osmontero/msync): the Syncer of            *)
(* pkg/sync/sync.go with its scan, comparator, worker pool and deletion    *)
(* sweep, over a small file system.                                        *)
(***************************************************************************)
EXTENDS Integers, Sequences, FiniteSets, TLC

(***************************************************************************)
(* Bounds of the model.                                                    *)
(***************************************************************************)
\* modification times of the initial files are 1..MaxMTime
MaxMTime == 2
\* the largest configured worker count
MaxThreads == 2
\* how many operations the environment makes fail in one behaviour
MaxFaults == 1
\* how many entries the source and the destination hold together initially
MaxEntries == 3

(***************************************************************************)
(* The file system: relative paths, nodes and trees.                       *)
(***************************************************************************)
\* the relative paths that can exist under a sync root
Paths == {"a", "a/b", "d"}

\* filepath.Dir of a relative path; "." is the root itself
Parent(p) == IF p = "a/b" THEN "a" ELSE "."

RECURSIVE IsUnder(_, _)
\* q lies strictly below p
IsUnder(q, p) == q # "." /\ (Parent(q) = p \/ IsUnder(Parent(q), p))

\* file contents are byte sequences; two of size 1 and one of size 2
Contents == {<<1>>, <<2>>, <<1, 2>>}

\* the time the clock shows while the program runs: after every initial mtime
Now == MaxMTime + 1

\* the permission bits a regular file can have
Modes == {"0600", "0644", "0755"}

\* the permission bits of a file made by os.Create: 0666 less the umask 022
CreateMode == "0644"

\* the permission bits of directories are not followed
NoMode == ""

NoNode == [kind |-> "none", content |-> <<>>, mtime |-> 0, mode |-> NoMode]
DirNode == [kind |-> "dir", content |-> <<>>, mtime |-> 0, mode |-> NoMode]
FileNode(c, m) ==
    [kind |-> "file", content |-> c, mtime |-> m, mode |-> CreateMode]

\* chmod
WithMode(node, mode) == [node EXCEPT !.mode = mode]

\* the file at a path after it was opened with O_CREATE and perm, and
\* written: an existing file keeps its permission bits, a new one gets perm
\* (none of Modes loses a bit to the umask)
Rewritten(old, c, m, perm) ==
    WithMode(FileNode(c, m), IF old.kind = "file" THEN old.mode ELSE perm)

EmptyTree == [p \in Paths |-> NoNode]

\* a directory on disk: "ok", "unreadable" or "missing"
DirObj(status, t) == [status |-> status, tree |-> t, layers |-> <<>>]

\* an archive file on disk: its codec layers, outermost first, and entries
ArchiveObj(layers, t) == [status |-> "archive", tree |-> t, layers |-> layers]

\* no file at all
Missing == DirObj("missing", EmptyTree)

\* every existing entry has a directory as its parent
WellFormed(t) ==
    \A p \in Paths : t[p].kind # "none" =>
        (Parent(p) = "." \/ t[Parent(p)].kind = "dir")

\* the absent digest (FileInfo.Checksum == "")
NoChecksum == <<>>

\* sha256 of a content, rendered by fmt.Sprintf("%x"): collision-free and
\* never the empty string
calculateChecksum(c) == <<0>> \o c

RECURSIVE MkdirAllOk(_, _)
\* os.MkdirAll(p) succeeds: p is a directory already, or nothing is in the
\* way of creating it and its missing ancestors
MkdirAllOk(t, p) ==
    IF p = "." THEN TRUE
    ELSE IF t[p].kind = "dir" THEN TRUE
    ELSE IF t[p].kind = "file" THEN FALSE
    ELSE MkdirAllOk(t, Parent(p))

RECURSIVE MkdirAll(_, _)
\* the tree after a successful os.MkdirAll(p)
MkdirAll(t, p) ==
    IF p = "." \/ t[p].kind # "none" THEN t
    ELSE [MkdirAll(t, Parent(p)) EXCEPT ![p] = DirNode]

\* the tree after a successful os.RemoveAll(p)
RemoveAll(t, p) ==
    [q \in Paths |-> IF q = p \/ IsUnder(q, p) THEN NoNode ELSE t[q]]

(***************************************************************************)
(* Options, Stats, FileInfo.                                               *)
(***************************************************************************)
\* the default worker count of New
DefaultThreads == 4

\* New: the defaults for Method and Threads
New(o) ==
    [o EXCEPT !.Method = IF o.Method = "" THEN "mtime" ELSE o.Method,
              !.Threads = IF o.Threads <= 0 THEN DefaultThreads ELSE o.Threads]

\* Stats{}
ZeroStats ==
    [FilesChecked |-> 0, FilesCopied |-> 0, FilesDeleted |-> 0,
     BytesCopied |-> 0, BytesDeleted |-> 0, DirsCreated |-> 0,
     Errors |-> <<>>,
     FilesToCopy |-> 0, FilesToDelete |-> 0, BytesToCopy |-> 0,
     BytesToDelete |-> 0, DirsToCreate |-> 0]

incrementCopied(st, bytes) ==
    [st EXCEPT !.FilesCopied = @ + 1, !.BytesCopied = @ + bytes]

incrementDeleted(st, bytes) ==
    [st EXCEPT !.FilesDeleted = @ + 1, !.BytesDeleted = @ + bytes]

addError(st, e) == [st EXCEPT !.Errors = Append(@, e)]

incrementDirCreated(st) == [st EXCEPT !.DirsCreated = @ + 1]

incrementDirToCreate(st) == [st EXCEPT !.DirsToCreate = @ + 1]

\* incrementFileToCopy without the byte total
incrementFileToCopyNoBytes(st, bytes) ==
    [st EXCEPT !.FilesToCopy = @ + 1]

incrementFileToCopy(st, bytes) ==
    [st EXCEPT !.FilesToCopy = @ + 1, !.BytesToCopy = @ + bytes]

incrementFileToDelete(st, bytes) ==
    [st EXCEPT !.FilesToDelete = @ + 1, !.BytesToDelete = @ + bytes]

\* shouldCalculateChecksum
shouldCalculateChecksum(o) == o.Method = "checksum" \/ o.Checksum

(***************************************************************************)
(* The scan.                                                               *)
(***************************************************************************)
\* the walk callback returns filepath.SkipDir for p
SkipDir(t, p, o) == ~o.Recursive /\ t[p].kind = "dir" /\ Parent(p) # "."

RECURSIVE Visited(_, _, _)
\* filepath.Walk calls the callback for p
Visited(t, p, o) ==
    /\ t[p].kind # "none"
    /\ \/ Parent(p) = "."
       \/ Visited(t, Parent(p), o) /\ ~SkipDir(t, Parent(p), o)

\* the FileInfo the walk callback records for p
ScanEntry(t, p, o) ==
    [Path |-> p,
     Size |-> Len(t[p].content),
     ModTime |-> t[p].mtime,
     Checksum |-> IF shouldCalculateChecksum(o) /\ t[p].kind = "file"
                  THEN calculateChecksum(t[p].content) ELSE NoChecksum,
     IsDir |-> t[p].kind = "dir"]

\* buildFileMap: the map of a root; a root that is missing or unreadable
\* gives the empty map (the walk callback swallows the error)
buildFileMap(root, o) ==
    LET t == root.tree
        S == IF root.status = "ok"
             THEN {p \in Paths : Visited(t, p, o) /\ ~SkipDir(t, p, o)}
             ELSE {}
    IN [p \in S |-> ScanEntry(t, p, o)]

(***************************************************************************)
(* The comparator.                                                         *)
(***************************************************************************)
\* After with the strictness lost
AfterOrEqual(t1, t2) == t1 >= t2

\* time.Time.After
After(t1, t2) == t1 > t2

\* compareByChecksum without the test for absent digests
compareByChecksumBlind(sourceFile, destFile) ==
    sourceFile.Checksum # destFile.Checksum

\* compareByChecksum
compareByChecksum(sourceFile, destFile) ==
    IF sourceFile.Checksum # NoChecksum /\ destFile.Checksum # NoChecksum
    THEN sourceFile.Checksum # destFile.Checksum
    ELSE sourceFile.Size # destFile.Size
            \/ After(sourceFile.ModTime, destFile.ModTime)

\* shouldSync with the size method deciding as mtime does
shouldSyncSizeByMTime(o, sourceFile, destFilesMap) ==
    IF sourceFile.Path \notin DOMAIN destFilesMap THEN TRUE
    ELSE LET destFile == destFilesMap[sourceFile.Path] IN
         IF sourceFile.IsDir # destFile.IsDir THEN TRUE
         ELSE IF sourceFile.IsDir THEN FALSE
         ELSE IF o.Method = "checksum"
              THEN compareByChecksum(sourceFile, destFile)
         ELSE After(sourceFile.ModTime, destFile.ModTime)
                 \/ sourceFile.Size # destFile.Size

\* shouldSync without the rule for two directories
shouldSyncDirsCompared(o, sourceFile, destFilesMap) ==
    IF sourceFile.Path \notin DOMAIN destFilesMap THEN TRUE
    ELSE LET destFile == destFilesMap[sourceFile.Path] IN
         IF sourceFile.IsDir # destFile.IsDir THEN TRUE
         ELSE IF o.Method = "size" THEN sourceFile.Size # destFile.Size
         ELSE IF o.Method = "checksum"
              THEN compareByChecksum(sourceFile, destFile)
         ELSE After(sourceFile.ModTime, destFile.ModTime)
                 \/ sourceFile.Size # destFile.Size

\* shouldSync
shouldSync(o, sourceFile, destFilesMap) ==
    IF sourceFile.Path \notin DOMAIN destFilesMap THEN TRUE
    ELSE LET destFile == destFilesMap[sourceFile.Path] IN
         IF sourceFile.IsDir # destFile.IsDir THEN TRUE
         ELSE IF sourceFile.IsDir THEN FALSE
         ELSE IF o.Method = "size" THEN sourceFile.Size # destFile.Size
         ELSE IF o.Method = "checksum"
              THEN compareByChecksum(sourceFile, destFile)
         ELSE After(sourceFile.ModTime, destFile.ModTime)
                 \/ sourceFile.Size # destFile.Size

(***************************************************************************)
(* The per-entry operations of a worker.  Each returns the destination     *)
(* tree, the statistics and the error it leaves behind.  fault names the   *)
(* step the environment makes fail ("none": no step); hit says that step   *)
(* was reached.                                                            *)
(***************************************************************************)
\* the nil error
NoErr == <<>>

\* syncDirectory without the DryRun branch
syncDirectoryNoDryRun(t, st, fileInfo, o, fault) ==
    LET p == fileInfo.Path IN
    IF fault = "mkdir" \/ ~MkdirAllOk(t, p)
    THEN [tree |-> t, st |-> st,
          err |-> <<"failed to create directory", p>>,
          hit |-> fault = "mkdir", op |-> "mkdirFailed"]
    ELSE [tree |-> MkdirAll(t, p), st |-> incrementDirCreated(st),
          err |-> NoErr, hit |-> FALSE, op |-> "mkdir"]

\* syncDirectory counting the directory before it is made
syncDirectoryCountsFirst(t, st, fileInfo, o, fault) ==
    LET p == fileInfo.Path IN
    IF o.DryRun
    THEN [tree |-> t, st |-> incrementDirToCreate(st), err |-> NoErr,
          hit |-> FALSE, op |-> "none"]
    ELSE IF fault = "mkdir" \/ ~MkdirAllOk(t, p)
    THEN [tree |-> t, st |-> incrementDirCreated(st),
          err |-> <<"failed to create directory", p>>,
          hit |-> fault = "mkdir", op |-> "mkdirFailed"]
    ELSE [tree |-> MkdirAll(t, p), st |-> incrementDirCreated(st),
          err |-> NoErr, hit |-> FALSE, op |-> "mkdir"]

\* syncDirectory
syncDirectory(t, st, fileInfo, o, fault) ==
    LET p == fileInfo.Path IN
    IF o.DryRun
    THEN [tree |-> t, st |-> incrementDirToCreate(st), err |-> NoErr,
          hit |-> FALSE, op |-> "none"]
    ELSE IF fault = "mkdir" \/ ~MkdirAllOk(t, p)
    THEN [tree |-> t, st |-> st,
          err |-> <<"failed to create directory", p>>,
          hit |-> fault = "mkdir", op |-> "mkdirFailed"]
    ELSE [tree |-> MkdirAll(t, p), st |-> incrementDirCreated(st),
          err |-> NoErr, hit |-> FALSE, op |-> "mkdir"]

\* copyFile opening the destination without O_TRUNC: the bytes of a longer
\* previous file stay behind the copied ones
copyFileNoTruncate(srcNode, t, p, fault, k) ==
    IF fault = "open" \/ srcNode.kind # "file"
    THEN [tree |-> t, ok |-> FALSE, hit |-> fault = "open"]
    ELSE IF fault = "create" \/ t[p].kind = "dir"
    THEN [tree |-> t, ok |-> FALSE, hit |-> fault = "create"]
    ELSE IF fault = "write"
    THEN [tree |-> [t EXCEPT ![p] =
                       Rewritten(t[p], SubSeq(srcNode.content, 1, k), Now,
                                 CreateMode)],
          ok |-> FALSE, hit |-> TRUE]
    ELSE [tree |-> [t EXCEPT ![p] =
                       Rewritten(t[p],
                                 srcNode.content
                                     \o SubSeq(t[p].content,
                                               Len(srcNode.content) + 1,
                                               Len(t[p].content)),
                                 Now, CreateMode)],
          ok |-> TRUE, hit |-> FALSE]

\* copyFile: os.Open, os.Create (truncating), io.Copy; a failing io.Copy
\* leaves the first k bytes behind
copyFile(srcNode, t, p, fault, k) ==
    IF fault = "open" \/ srcNode.kind # "file"
    THEN [tree |-> t, ok |-> FALSE, hit |-> fault = "open"]
    ELSE IF fault = "create" \/ t[p].kind = "dir"
    THEN [tree |-> t, ok |-> FALSE, hit |-> fault = "create"]
    ELSE IF fault = "write"
    THEN [tree |-> [t EXCEPT ![p] =
                       Rewritten(t[p], SubSeq(srcNode.content, 1, k), Now,
                                 CreateMode)],
          ok |-> FALSE, hit |-> TRUE]
    ELSE [tree |-> [t EXCEPT ![p] =
                       Rewritten(t[p], srcNode.content, Now, CreateMode)],
          ok |-> TRUE, hit |-> FALSE]

\* syncRegularFile
syncRegularFile(src, t, st, fileInfo, o, fault, k) ==
    LET p == fileInfo.Path
        sourceInfo == src[p]
    IN
    IF o.DryRun
    THEN [tree |-> t, st |-> incrementFileToCopy(st, fileInfo.Size),
          err |-> NoErr, hit |-> FALSE, op |-> "none"]
    ELSE IF fault = "stat" \/ sourceInfo.kind = "none"
    THEN [tree |-> t, st |-> st,
          err |-> <<"failed to get source file info", p>>,
          hit |-> fault = "stat", op |-> "copyFailed"]
    ELSE IF fault = "mkparent" \/ ~MkdirAllOk(t, Parent(p))
    THEN [tree |-> t, st |-> st,
          err |-> <<"failed to create destination directory", p>>,
          hit |-> fault = "mkparent", op |-> "mkdirFailed"]
    ELSE
    LET t1 == MkdirAll(t, Parent(p))
        c == copyFile(sourceInfo, t1, p, fault, k)
    IN
    IF ~c.ok
    THEN [tree |-> c.tree, st |-> st,
          err |-> <<"failed to copy file", p>>,
          hit |-> c.hit, op |-> "copyFailed"]
    ELSE IF fault = "chtimes"
    THEN [tree |-> c.tree,
          st |-> incrementCopied(
                    addError(st, <<"Failed to preserve timestamps", p>>),
                    fileInfo.Size),
          err |-> NoErr, hit |-> TRUE, op |-> "copyNoTime"]
    ELSE [tree |-> [c.tree EXCEPT ![p].mtime = sourceInfo.mtime],
          st |-> incrementCopied(st, fileInfo.Size),
          err |-> NoErr, hit |-> FALSE, op |-> "copy"]

\* syncFile
syncFile(src, t, st, fileInfo, o, fault, k) ==
    IF fileInfo.IsDir
    THEN syncDirectory(t, st, fileInfo, o, fault)
    ELSE syncRegularFile(src, t, st, fileInfo, o, fault, k)

\* the steps of syncFile the environment can make fail
EntryFaults == {"none", "mkdir", "stat", "mkparent", "open", "create",
                "write", "chtimes"}

\* the sweep run whether or not Delete is set
DeleteSetAlways(o, destFilesMap) == DOMAIN destFilesMap

\* the paths the deletion sweep ranges over: Sync calls deleteExtraFiles
\* only when Delete is set
DeleteSet(o, destFilesMap) ==
    IF o.Delete THEN DOMAIN destFilesMap ELSE {}

(***************************************************************************)
(* Path names and archives (pkg/tar/tar.go).  A path name is a sequence of *)
(* name pieces: stems and extensions.                                      *)
(***************************************************************************)
\* strings.ToLower on one name piece
LowerPiece(x) ==
    CASE x = ".TAR" -> ".tar"
      [] x = ".Tar" -> ".tar"
      [] x = ".GZ" -> ".gz"
      [] x = ".TGZ" -> ".tgz"
      [] x = ".GPG" -> ".gpg"
      [] OTHER -> x

\* strings.ToLower
ToLower(path) == [i \in DOMAIN path |-> LowerPiece(path[i])]

\* strings.HasSuffix
HasSuffix(path, suf) ==
    /\ Len(path) >= Len(suf)
    /\ SubSeq(path, Len(path) - Len(suf) + 1, Len(path)) = suf

\* strings.Contains, for a needle of one piece
Contains(path, x) == \E i \in DOMAIN path : path[i] = x

\* IsTarFile without strings.ToLower
IsTarFileCaseSensitive(path) ==
    \/ HasSuffix(path, <<".tar">>)
    \/ HasSuffix(path, <<".tar", ".gz">>)
    \/ HasSuffix(path, <<".tgz">>)
    \/ HasSuffix(path, <<".tar", ".gpg">>)
    \/ HasSuffix(path, <<".tar", ".gz", ".gpg">>)
    \/ HasSuffix(path, <<".tgz", ".gpg">>)

\* IsTarFile
IsTarFile(path) ==
    LET l == ToLower(path) IN
    \/ HasSuffix(l, <<".tar">>)
    \/ HasSuffix(l, <<".tar", ".gz">>)
    \/ HasSuffix(l, <<".tgz">>)
    \/ HasSuffix(l, <<".tar", ".gpg">>)
    \/ HasSuffix(l, <<".tar", ".gz", ".gpg">>)
    \/ HasSuffix(l, <<".tgz", ".gpg">>)

\* ParseTarOptions
ParseTarOptions(path) ==
    LET l == ToLower(path) IN
    [Compression |-> Contains(l, ".gz") \/ Contains(l, ".tgz"),
     GPGEncrypt |-> HasSuffix(l, <<".gpg">>),
     GPGSign |-> FALSE,
     GPGKeyID |-> ""]

\* the TarOptions extractTarToDirectory builds
ExtractOptions(o, tarPath) ==
    [ParseTarOptions(tarPath) EXCEPT !.GPGKeyID = o.GPGKeyID]

\* the TarOptions createTarFromDirectory builds
CreateOptions(o, tarPath) ==
    LET parsedOptions == ParseTarOptions(tarPath) IN
    [Compression |-> o.TarCompress \/ parsedOptions.Compression,
     GPGEncrypt |-> o.GPGEncrypt \/ parsedOptions.GPGEncrypt,
     GPGSign |-> o.GPGSign,
     GPGKeyID |-> o.GPGKeyID]

\* tar.New starts a GPG handler
NeedsGPG(tarOptions) == tarOptions.GPGEncrypt \/ tarOptions.GPGSign

\* the codec layers Create wraps around the tar stream, outermost first:
\* the gzip writer wraps the file, the encrypting writer wraps the gzip writer
CreateLayers(tarOptions) ==
    (IF tarOptions.Compression THEN <<"gzip">> ELSE <<>>)
        \o (IF tarOptions.GPGEncrypt THEN <<"gpg">> ELSE <<>>)

\* the codec layers Extract takes off the file, outermost first: the
\* decrypting reader reads the file, the gzip reader reads the decrypted bytes
ExtractLayers(tarOptions) ==
    (IF tarOptions.GPGEncrypt THEN <<"gpg">> ELSE <<>>)
        \o (IF tarOptions.Compression THEN <<"gzip">> ELSE <<>>)

\* the order in which filepath.Walk visits the paths, and Create writes them
WalkOrder == <<"a", "a/b", "d">>

\* os.OpenFile(O_CREATE|O_RDWR) and io.Copy: the new bytes are written over
\* the old ones from offset 0, without truncation
Overlay(new, old) == new \o SubSeq(old, Len(new) + 1, Len(old))

RECURSIVE ExtractEntries(_, _, _)
\* the loop of Extract over the entries still to be read
ExtractEntries(entries, arch, t) ==
    IF entries = <<>> THEN [tree |-> t, ok |-> TRUE]
    ELSE LET p == Head(entries)
             header == arch[p]
         IN
         IF header.kind = "none"
         THEN ExtractEntries(Tail(entries), arch, t)
         ELSE IF header.kind = "dir"
         THEN IF MkdirAllOk(t, p)
              THEN ExtractEntries(Tail(entries), arch, MkdirAll(t, p))
              ELSE [tree |-> t, ok |-> FALSE]
         ELSE IF ~MkdirAllOk(t, Parent(p))
         THEN [tree |-> t, ok |-> FALSE]
         ELSE LET t1 == MkdirAll(t, Parent(p)) IN
              IF t1[p].kind = "dir"
              THEN [tree |-> t1, ok |-> FALSE]
              ELSE ExtractEntries(Tail(entries), arch,
                       [t1 EXCEPT ![p] =
                           Rewritten(t1[p],
                                     Overlay(header.content, t1[p].content),
                                     header.mtime, header.mode)])

\* the path name of the detached signature of an archive: ta.Path + ".sig"
SignaturePath(tarPath) == tarPath \o <<".sig">>

\* a detached signature file: "sig" verifies against its archive, "badsig"
\* does not
SigObj(status) == [status |-> status, tree |-> EmptyTree, layers |-> <<>>]

\* what the disk holds at the signature path of an archive
SignatureOf(d, tarPath) ==
    IF SignaturePath(tarPath) \in DOMAIN d THEN d[SignaturePath(tarPath)]
    ELSE Missing

\* Extract finds a signature file and gpg --verify rejects it
VerifyFails(sig, tarOptions) ==
    /\ tarOptions.GPGSign
    /\ NeedsGPG(tarOptions)
    /\ sig.status # "missing"
    /\ sig.status # "sig"

\* TarArchive.Extract into an existing directory; sig is what lies at the
\* signature path
Extract(archive, sig, tarOptions, t) ==
    IF VerifyFails(sig, tarOptions)
    THEN [tree |-> t, ok |-> FALSE]
    ELSE IF archive.status # "archive"
            \/ archive.layers # ExtractLayers(tarOptions)
    THEN [tree |-> t, ok |-> FALSE]
    ELSE ExtractEntries(WalkOrder, archive.tree, t)

\* extractTarToDirectory: the disk afterwards and whether it returned nil.
\* fault: "gpg" (tar.New cannot start GPG), "mkdir" (os.MkdirAll fails)
extractTarToDirectory(d, o, tarPath, destDir, fault) ==
    LET tarOptions == ExtractOptions(o, tarPath) IN
    IF o.DryRun THEN [disk |-> d, ok |-> TRUE, hit |-> FALSE]
    ELSE IF NeedsGPG(tarOptions) /\ fault = "gpg"
    THEN [disk |-> d, ok |-> FALSE, hit |-> TRUE]
    ELSE IF fault = "mkdir" \/ d[destDir].status = "archive"
    THEN [disk |-> d, ok |-> FALSE, hit |-> fault = "mkdir"]
    ELSE LET d1 == IF d[destDir].status = "missing"
                   THEN [d EXCEPT ![destDir] = DirObj("ok", EmptyTree)]
                   ELSE d
             x == Extract(d1[tarPath], SignatureOf(d1, tarPath), tarOptions,
                          d1[destDir].tree)
         IN [disk |-> [d1 EXCEPT ![destDir].tree = x.tree],
             ok |-> x.ok, hit |-> FALSE]

\* the archive file as gpg reads it when Create calls Sign: the deferred
\* Close calls of the tar, encrypting and gzip writers have not run yet, so
\* the end-of-archive blocks and what the writers still hold are not in it
Unclosed(obj) == [obj EXCEPT !.status = "unclosed"]

\* gpg --detach-sign over the bytes of signedFile: the signature verifies
\* against file iff file holds those bytes
Sign(signedFile, file) ==
    SigObj(IF signedFile = file THEN "sig" ELSE "badsig")

\* TarArchive.Create: os.Create truncates the archive file before anything
\* is read; the entries are those of the walk, which fails on a root it
\* cannot enter; the signature is made after the walk, before Create
\* returns and its deferred Close calls run
Create(srcObj, tarOptions, fault) ==
    IF fault = "create"
    THEN [written |-> FALSE, ok |-> FALSE, hit |-> TRUE,
          obj |-> Missing, signed |-> FALSE, sig |-> Missing]
    ELSE IF tarOptions.GPGEncrypt /\ tarOptions.GPGKeyID = ""
    THEN [written |-> TRUE, ok |-> FALSE, hit |-> FALSE,
          obj |-> ArchiveObj(<<>>, EmptyTree),
          signed |-> FALSE, sig |-> Missing]
    ELSE IF srcObj.status # "ok"
    THEN [written |-> TRUE, ok |-> FALSE, hit |-> FALSE,
          obj |-> ArchiveObj(CreateLayers(tarOptions), EmptyTree),
          signed |-> FALSE, sig |-> Missing]
    ELSE LET obj == ArchiveObj(CreateLayers(tarOptions), srcObj.tree) IN
         IF ~(tarOptions.GPGSign /\ NeedsGPG(tarOptions))
         THEN [written |-> TRUE, ok |-> TRUE, hit |-> FALSE, obj |-> obj,
               signed |-> FALSE, sig |-> Missing]
         ELSE IF tarOptions.GPGKeyID = ""
         THEN [written |-> TRUE, ok |-> FALSE, hit |-> FALSE, obj |-> obj,
               signed |-> FALSE, sig |-> Missing]
         ELSE [written |-> TRUE, ok |-> TRUE, hit |-> FALSE, obj |-> obj,
               signed |-> TRUE, sig |-> Sign(Unclosed(obj), obj)]

\* the disk after Create: the archive file and, if one was made, the
\* signature file next to it
AfterCreate(d, tarPath, c) ==
    IF ~c.written THEN d
    ELSE IF c.signed
    THEN (SignaturePath(tarPath) :> c.sig) @@ [d EXCEPT ![tarPath] = c.obj]
    ELSE [d EXCEPT ![tarPath] = c.obj]

\* createTarFromDirectory: the disk afterwards and whether it returned nil.
\* fault: "gpg" (tar.New cannot start GPG), "create" (os.Create fails)
createTarFromDirectory(d, o, sourceDir, tarPath, fault) ==
    LET tarOptions == CreateOptions(o, tarPath) IN
    IF o.DryRun THEN [disk |-> d, ok |-> TRUE, hit |-> FALSE]
    ELSE IF NeedsGPG(tarOptions) /\ fault = "gpg"
    THEN [disk |-> d, ok |-> FALSE, hit |-> TRUE]
    ELSE LET c == Create(d[sourceDir], tarOptions, fault) IN
         [disk |-> AfterCreate(d, tarPath, c), ok |-> c.ok, hit |-> c.hit]

\* the steps of the archive operations the environment can make fail
TarFaults == {"none", "gpg", "mkdir", "create"}

(***************************************************************************)
(* The state.                                                              *)
(***************************************************************************)
VARIABLES
    options,      \* Syncer.options
    stats,        \* Syncer.stats
    disk,         \* the file system: what each path name holds
    source,       \* the arguments of the running Sync call
    destination,
    pc,           \* where the running Sync call is
    result,       \* what the last Sync call returned: "none", "nil", "error"
    sourceFiles,  \* the maps built by the scan
    destFiles,
    toQueue,      \* the source entries the producer has not yet ranged over
    workChan,     \* the work queue and whether it is closed
    workClosed,
    errorChan,    \* the error channel and whether it is closed
    errClosed,
    wpc,          \* each worker: "off", "recv", "sync", "done"
    item,         \* the entry a worker has received
    mu,           \* Syncer.mu: 0 when free, else the worker that holds it
    reg,          \* each worker's locals: statistics updates still to make
    toDelete,     \* the destination entries the sweep has not yet ranged over
    outer,        \* the syncTarToTar call that waits for the running Sync
    g             \* history: what the top-level call has done so far

vars == <<options, stats, disk, source, destination, pc, result, sourceFiles,
          destFiles, toQueue, workChan, workClosed, errorChan, errClosed,
          wpc, item, mu, reg, toDelete, outer, g>>

poolVars == <<toQueue, workChan, workClosed, errorChan, errClosed, wpc, item,
              mu, reg>>

Workers == 1..MaxThreads

\* the path names of the two directory roots
SrcDir == <<"src">>
DstDir == <<"dst">>

\* the path names of the two archives
SrcTar == <<"in", ".tar">>
DstTar == <<"out", ".TGZ">>

\* os.MkdirTemp("", "msync-tar-") and the two directories below it
TempDir == <<"tmp">>
SourceExtractDir == <<"tmp", "/", "source">>
DestExtractDir == <<"tmp", "/", "dest">>

\* no syncTarToTar call is waiting
NoOuter == [active |-> FALSE, source |-> <<>>, destination |-> <<>>,
            originalDryRun |-> FALSE]

\* the empty map
NoFiles == [p \in {} |-> NoNode]

\* a worker with no statistics update to make
NoReg == [todo |-> <<>>, val |-> 0]

\* a FileInfo that stands for "no entry in hand"
NoItem == [Path |-> ".", Size |-> 0, ModTime |-> 0, Checksum |-> NoChecksum,
           IsDir |-> TRUE]

\* the history of a run, as it is when Sync is called
NewRun(old, dry, dst, dstObj, st) ==
    [given |-> old.given, faults |-> old.faults, runs |-> old.runs + 1,
     dry |-> dry, dest |-> dst, dst0 |-> dstObj, errs0 |-> Len(st.Errors), copied0 |-> st.FilesCopied,
     dirs0 |-> st.DirsCreated, deleted0 |-> st.FilesDeleted,
     queued |-> {}, failed |-> 0, okCopy |-> 0, okMkdir |-> 0,
     removed |-> {}, written |-> {}, injected |-> {}, counted |-> {},
     taken |-> [p \in Paths |-> 0]]

NoRun(o) ==
    [given |-> o, faults |-> 0, runs |-> 0, dry |-> FALSE, dest |-> <<>>,
     dst0 |-> Missing,
     errs0 |-> 0, copied0 |-> 0, dirs0 |-> 0, deleted0 |-> 0,
     queued |-> {}, failed |-> 0, okCopy |-> 0, okMkdir |-> 0,
     removed |-> {}, written |-> {}, injected |-> {}, counted |-> {},
     taken |-> [p \in Paths |-> 0]]

(***************************************************************************)
(* Sync, directory to directory.                                           *)
(***************************************************************************)
\* Sync is called: the archive endpoints are told from the path names
SyncCall ==
    /\ pc = "call"
    /\ LET sourceTar == IsTarFile(source)
           destTar == IsTarFile(destination)
       IN pc' = IF ~(sourceTar \/ destTar) THEN "scanSource"
                ELSE IF sourceTar /\ ~destTar THEN "extract"
                ELSE IF ~sourceTar /\ destTar THEN "create"
                ELSE "tarToTar"
    /\ result' = "none"
    /\ g' = IF outer.active THEN g
            ELSE NewRun(g, options.DryRun, destination, disk[destination],
                        stats)
    /\ UNCHANGED <<options, stats, disk, source, destination, sourceFiles,
                   destFiles, poolVars, toDelete, outer>>

\* the statistics after buildFileMap of a root: one error for a root the
\* walk cannot enter, one FilesChecked for every entry recorded
ScanStats(st, root, files) ==
    LET st1 == IF root.status = "ok" THEN st
               ELSE addError(st, <<"Error accessing", ".">>)
    IN [st1 EXCEPT !.FilesChecked = @ + Cardinality(DOMAIN files)]

\* sourceFiles, err := s.buildFileMap(source, ""); err is always nil
ScanSource ==
    /\ pc = "scanSource"
    /\ sourceFiles' = buildFileMap(disk[source], options)
    /\ stats' = ScanStats(stats, disk[source], sourceFiles')
    /\ pc' = "scanDest"
    /\ UNCHANGED <<options, disk, source, destination, result, destFiles,
                   poolVars, toDelete, outer, g>>

\* the destination exists: it is scanned
ScanDest ==
    /\ pc = "scanDest"
    /\ disk[destination].status # "missing"
    /\ destFiles' = buildFileMap(disk[destination], options)
    /\ stats' = ScanStats(stats, disk[destination], destFiles')
    /\ pc' = "process"
    /\ UNCHANGED <<options, disk, source, destination, result, sourceFiles,
                   poolVars, toDelete, outer, g>>

\* the destination does not exist: it is created, unless DryRun
MakeDest ==
    /\ pc = "scanDest"
    /\ disk[destination].status = "missing"
    /\ destFiles' = NoFiles
    /\ \/ /\ options.DryRun
          /\ pc' = "process"
          /\ UNCHANGED <<disk, result, g>>
       \/ /\ ~options.DryRun
          /\ disk' = [disk EXCEPT ![destination] = DirObj("ok", EmptyTree)]
          /\ pc' = "process"
          /\ UNCHANGED <<result, g>>
       \/ /\ ~options.DryRun
          /\ g.faults < MaxFaults
          /\ g' = [g EXCEPT !.faults = @ + 1]
          /\ result' = "error"
          /\ pc' = "returned"
          /\ UNCHANGED disk
    /\ UNCHANGED <<options, stats, source, destination, sourceFiles,
                   poolVars, toDelete, outer>>

\* processFiles: the channels are made and the workers started
StartPool ==
    /\ pc = "process"
    /\ pc' = "pool"
    /\ toQueue' = DOMAIN sourceFiles
    /\ workChan' = <<>>
    /\ workClosed' = FALSE
    /\ errorChan' = <<>>
    /\ errClosed' = FALSE
    /\ wpc' = [w \in Workers |-> IF w <= options.Threads THEN "recv" ELSE "off"]
    /\ item' = [w \in Workers |-> NoItem]
    /\ UNCHANGED <<options, stats, disk, source, destination, result,
                   sourceFiles, destFiles, toDelete, outer, g,
                   mu, reg>>

\* the producer without the comparator: every source entry is queued
ProduceUnfiltered ==
    /\ pc = "pool"
    /\ \E p \in toQueue :
        /\ toQueue' = toQueue \ {p}
        /\ Len(workChan) < Cardinality(DOMAIN sourceFiles)
        /\ workChan' = Append(workChan, sourceFiles[p])
        /\ g' = [g EXCEPT !.queued = @ \cup {p}]
    /\ UNCHANGED <<options, stats, disk, source, destination, pc, result,
                   sourceFiles, destFiles, workClosed, errorChan, errClosed,
                   wpc, item, toDelete, outer,
                   mu, reg>>

\* the producer ranges over one more source entry
Produce ==
    /\ pc = "pool"
    /\ \E p \in toQueue :
        /\ toQueue' = toQueue \ {p}
        /\ IF shouldSync(options, sourceFiles[p], destFiles)
           THEN /\ Len(workChan) < Cardinality(DOMAIN sourceFiles)
                /\ workChan' = Append(workChan, sourceFiles[p])
                /\ g' = [g EXCEPT !.queued = @ \cup {p}]
           ELSE UNCHANGED <<workChan, g>>
    /\ UNCHANGED <<options, stats, disk, source, destination, pc, result,
                   sourceFiles, destFiles, workClosed, errorChan, errClosed,
                   wpc, item, toDelete, outer,
                   mu, reg>>

\* close(workChan) put after wg.Wait()
CloseWorkAfterWait ==
    /\ pc = "pool"
    /\ toQueue = {}
    /\ ~workClosed
    /\ \A w \in Workers : wpc[w] \in {"off", "done"}
    /\ workClosed' = TRUE
    /\ UNCHANGED <<options, stats, disk, source, destination, pc, result,
                   sourceFiles, destFiles, toQueue, workChan, errorChan,
                   errClosed, wpc, item, toDelete, outer, g,
                   mu, reg>>

\* the producer is through: defer close(workChan)
CloseWork ==
    /\ pc = "pool"
    /\ toQueue = {}
    /\ ~workClosed
    /\ workClosed' = TRUE
    /\ UNCHANGED <<options, stats, disk, source, destination, pc, result,
                   sourceFiles, destFiles, toQueue, workChan, errorChan,
                   errClosed, wpc, item, toDelete, outer, g,
                   mu, reg>>

\* a worker receives an entry from the queue
WorkerRecv(w) ==
    /\ pc = "pool"
    /\ wpc[w] = "recv"
    /\ workChan # <<>>
    /\ item' = [item EXCEPT ![w] = Head(workChan)]
    /\ workChan' = Tail(workChan)
    /\ wpc' = [wpc EXCEPT ![w] = "sync"]
    /\ g' = [g EXCEPT !.taken[Head(workChan).Path] = @ + 1]
    /\ UNCHANGED <<options, stats, disk, source, destination, pc, result,
                   sourceFiles, destFiles, toQueue, workClosed, errorChan,
                   errClosed, toDelete, outer,
                   mu, reg>>

\* the history after one syncFile
AfterEntry(h, p, out) ==
    [h EXCEPT !.faults = IF out.hit THEN @ + 1 ELSE @,
              !.failed = IF out.op \in {"copyFailed", "mkdirFailed",
                                        "copyNoTime"}
                         THEN @ + 1 ELSE @,
              !.okCopy = IF out.op \in {"copy", "copyNoTime"}
                         THEN @ + 1 ELSE @,
              !.okMkdir = IF out.op = "mkdir" THEN @ + 1 ELSE @,
              !.written = IF out.op \in {"copy", "copyNoTime", "mkdir"}
                          THEN @ \cup {p} ELSE @]

\* a worker runs syncFile on its entry and sends the error, if any
WorkerSync(w) ==
    /\ pc = "pool"
    /\ wpc[w] = "sync"
    /\ \E fault \in EntryFaults, k \in 0..1 :
        LET out == syncFile(disk[source].tree, disk[destination].tree, stats,
                            item[w], options, fault, k)
        IN /\ fault = "none" \/ (out.hit /\ g.faults < MaxFaults)
           /\ IF fault = "write" THEN k < item[w].Size ELSE k = 0
           /\ disk' = [disk EXCEPT ![destination].tree = out.tree]
           /\ stats' = out.st
           /\ IF out.err = NoErr
              THEN UNCHANGED errorChan
              ELSE /\ Len(errorChan) < Cardinality(DOMAIN sourceFiles)
                   /\ errorChan' = Append(errorChan, out.err)
           /\ g' = AfterEntry(g, item[w].Path, out)
    /\ wpc' = [wpc EXCEPT ![w] = "recv"]
    /\ item' = [item EXCEPT ![w] = NoItem]
    /\ UNCHANGED <<options, source, destination, pc, result, sourceFiles,
                   destFiles, toQueue, workChan, workClosed, errClosed,
                   toDelete, outer,
                   mu, reg>>

\* a worker finds the queue closed and drained: wg.Done
WorkerExit(w) ==
    /\ pc = "pool"
    /\ wpc[w] = "recv"
    /\ workChan = <<>>
    /\ workClosed
    /\ wpc' = [wpc EXCEPT ![w] = "done"]
    /\ UNCHANGED <<options, stats, disk, source, destination, pc, result,
                   sourceFiles, destFiles, toQueue, workChan, workClosed,
                   errorChan, errClosed, item, toDelete, outer, g,
                   mu, reg>>

\* wg.Wait() that returns while workers are still running
CloseErrorsEarly ==
    /\ pc = "pool"
    /\ ~errClosed
    /\ errClosed' = TRUE
    /\ UNCHANGED <<options, stats, disk, source, destination, pc, result,
                   sourceFiles, destFiles, toQueue, workChan, workClosed,
                   errorChan, wpc, item, toDelete, outer, g,
                   mu, reg>>

\* wg.Wait returns: close(errorChan)
CloseErrors ==
    /\ pc = "pool"
    /\ ~errClosed
    /\ \A w \in Workers : wpc[w] \in {"off", "done"}
    /\ errClosed' = TRUE
    /\ UNCHANGED <<options, stats, disk, source, destination, pc, result,
                   sourceFiles, destFiles, toQueue, workChan, workClosed,
                   errorChan, wpc, item, toDelete, outer, g,
                   mu, reg>>

\* the collector takes one error off the channel
Collect ==
    /\ pc = "pool"
    /\ errorChan # <<>>
    /\ stats' = addError(stats, Head(errorChan))
    /\ errorChan' = Tail(errorChan)
    /\ UNCHANGED <<options, disk, source, destination, pc, result,
                   sourceFiles, destFiles, toQueue, workChan, workClosed,
                   errClosed, wpc, item, toDelete, outer, g,
                   mu, reg>>

\* the channel is closed and drained: processFiles returns nil
PoolReturn ==
    /\ pc = "pool"
    /\ errorChan = <<>>
    /\ errClosed
    /\ pc' = "delete"
    /\ toDelete' = DeleteSet(options, destFiles)
    /\ UNCHANGED <<options, stats, disk, source, destination, result,
                   sourceFiles, destFiles, poolVars, outer, g>>

\* the loop body of deleteExtraFiles without the test on sourceFiles
deleteEntryUnchecked(srcMap, t, st, p, o, fault) ==
    LET info == t[p] IN
    IF info.kind = "none"
    THEN [tree |-> t, st |-> st, hit |-> FALSE, op |-> "statFailed"]
    ELSE IF o.DryRun
    THEN [tree |-> t,
          st |-> IF info.kind # "dir"
                 THEN incrementFileToDelete(st, Len(info.content)) ELSE st,
          hit |-> FALSE, op |-> "planned"]
    ELSE IF fault = "remove"
    THEN [tree |-> t, st |-> addError(st, <<"Failed to delete", p>>),
          hit |-> TRUE, op |-> "removeFailed"]
    ELSE [tree |-> RemoveAll(t, p),
          st |-> IF info.kind # "dir"
                 THEN incrementDeleted(st, Len(info.content)) ELSE st,
          hit |-> FALSE, op |-> "removed"]

\* one iteration of the loop of deleteExtraFiles, for destination path p
deleteEntry(srcMap, t, st, p, o, fault) ==
    LET info == t[p] IN
    IF p \in DOMAIN srcMap
    THEN [tree |-> t, st |-> st, hit |-> FALSE, op |-> "kept"]
    ELSE IF info.kind = "none"
    THEN [tree |-> t, st |-> st, hit |-> FALSE, op |-> "statFailed"]
    ELSE IF o.DryRun
    THEN [tree |-> t,
          st |-> IF info.kind # "dir"
                 THEN incrementFileToDelete(st, Len(info.content)) ELSE st,
          hit |-> FALSE, op |-> "planned"]
    ELSE IF fault = "remove"
    THEN [tree |-> t, st |-> addError(st, <<"Failed to delete", p>>),
          hit |-> TRUE, op |-> "removeFailed"]
    ELSE [tree |-> RemoveAll(t, p),
          st |-> IF info.kind # "dir"
                 THEN incrementDeleted(st, Len(info.content)) ELSE st,
          hit |-> FALSE, op |-> "removed"]

\* the steps of the sweep the environment can make fail
SweepFaults == {"none", "remove"}

\* the sweep ranges over one more destination entry
DeleteStep ==
    /\ pc = "delete"
    /\ \E p \in toDelete, fault \in SweepFaults :
        LET out == deleteEntry(sourceFiles, disk[destination].tree, stats, p,
                               options, fault)
        IN /\ fault = "none" \/ (out.hit /\ g.faults < MaxFaults)
           /\ toDelete' = toDelete \ {p}
           /\ disk' = [disk EXCEPT ![destination].tree = out.tree]
           /\ stats' = out.st
           /\ g' = [g EXCEPT !.faults = IF out.hit THEN @ + 1 ELSE @,
                             !.failed = IF out.op = "removeFailed"
                                        THEN @ + 1 ELSE @,
                             !.removed = IF out.op = "removed"
                                         THEN @ \cup {p} ELSE @]
    /\ UNCHANGED <<options, source, destination, pc, result, sourceFiles,
                   destFiles, poolVars, outer>>

\* the sweep is through (or was not asked for): Sync returns nil
SyncReturn ==
    /\ pc = "delete"
    /\ toDelete = {}
    /\ result' = "nil"
    /\ pc' = "returned"
    /\ UNCHANGED <<options, stats, disk, source, destination, sourceFiles,
                   destFiles, poolVars, toDelete, outer, g>>

\* how many times Sync is called on the same Syncer
MaxRuns == 2

\* the caller calls Sync again, with the same arguments
SyncAgain ==
    /\ pc = "returned"
    /\ ~outer.active
    /\ g.runs < MaxRuns
    /\ pc' = "call"
    /\ UNCHANGED <<options, stats, disk, source, destination, result,
                   sourceFiles, destFiles, poolVars, toDelete, outer, g>>

(***************************************************************************)
(* Sync with an archive at either end (syncWithTar).                       *)
(***************************************************************************)
\* archive to directory: Sync returns what extractTarToDirectory returns
TarExtract ==
    /\ pc = "extract"
    /\ \E fault \in TarFaults :
        LET out == extractTarToDirectory(disk, options, source, destination,
                                         fault)
        IN /\ fault = "none" \/ (out.hit /\ g.faults < MaxFaults)
           /\ disk' = out.disk
           /\ result' = IF out.ok THEN "nil" ELSE "error"
           /\ g' = [g EXCEPT !.faults = IF out.hit THEN @ + 1 ELSE @]
    /\ pc' = "returned"
    /\ UNCHANGED <<options, stats, source, destination, sourceFiles,
                   destFiles, poolVars, toDelete, outer>>

\* directory to archive: Sync returns what createTarFromDirectory returns
TarCreate ==
    /\ pc = "create"
    /\ \E fault \in TarFaults :
        LET out == createTarFromDirectory(disk, options, source, destination,
                                          fault)
        IN /\ fault = "none" \/ (out.hit /\ g.faults < MaxFaults)
           /\ disk' = out.disk
           /\ result' = IF out.ok THEN "nil" ELSE "error"
           /\ g' = [g EXCEPT !.faults = IF out.hit THEN @ + 1 ELSE @]
    /\ pc' = "returned"
    /\ UNCHANGED <<options, stats, source, destination, sourceFiles,
                   destFiles, poolVars, toDelete, outer>>

\* syncTarToTar: os.MkdirTemp
TarToTarTemp ==
    /\ pc = "tarToTar"
    /\ \/ /\ disk' = [disk EXCEPT ![TempDir] = DirObj("ok", EmptyTree)]
          /\ pc' = "extractSource"
          /\ UNCHANGED <<result, g>>
       \/ /\ g.faults < MaxFaults
          /\ g' = [g EXCEPT !.faults = @ + 1]
          /\ result' = "error"
          /\ pc' = "returned"
          /\ UNCHANGED disk
    /\ UNCHANGED <<options, stats, source, destination, sourceFiles,
                   destFiles, poolVars, toDelete, outer>>

\* syncTarToTar: the source archive is extracted below the temporary
\* directory
TarToTarSource ==
    /\ pc = "extractSource"
    /\ \E fault \in TarFaults :
        LET out == extractTarToDirectory(disk, options, source,
                                         SourceExtractDir, fault)
        IN /\ fault = "none" \/ (out.hit /\ g.faults < MaxFaults)
           /\ disk' = out.disk
           /\ g' = [g EXCEPT !.faults = IF out.hit THEN @ + 1 ELSE @]
           /\ IF out.ok
              THEN pc' = "extractDest" /\ UNCHANGED result
              ELSE pc' = "cleanup" /\ result' = "error"
    /\ UNCHANGED <<options, stats, source, destination, sourceFiles,
                   destFiles, poolVars, toDelete, outer>>

\* syncTarToTar: the destination archive is extracted if it exists, else
\* its directory is made
TarToTarDest ==
    /\ pc = "extractDest"
    /\ \E fault \in TarFaults :
        LET out == IF disk[destination].status # "missing"
                   THEN extractTarToDirectory(disk, options, destination,
                                              DestExtractDir, fault)
                   ELSE IF fault = "mkdir"
                   THEN [disk |-> disk, ok |-> FALSE, hit |-> TRUE]
                   ELSE [disk |-> [disk EXCEPT ![DestExtractDir] =
                                      DirObj("ok", EmptyTree)],
                         ok |-> TRUE, hit |-> FALSE]
        IN /\ fault = "none" \/ (out.hit /\ g.faults < MaxFaults)
           /\ disk' = out.disk
           /\ g' = [g EXCEPT !.faults = IF out.hit THEN @ + 1 ELSE @]
           /\ IF out.ok
              THEN pc' = "syncDirs" /\ UNCHANGED result
              ELSE pc' = "cleanup" /\ result' = "error"
    /\ UNCHANGED <<options, stats, source, destination, sourceFiles,
                   destFiles, poolVars, toDelete, outer>>

\* syncTarToTar: DryRun is switched off and Sync is called on the two
\* extracted directories
TarToTarSync ==
    /\ pc = "syncDirs"
    /\ outer' = [active |-> TRUE, source |-> source,
                 destination |-> destination,
                 originalDryRun |-> options.DryRun]
    /\ options' = [options EXCEPT !.DryRun = FALSE]
    /\ source' = SourceExtractDir
    /\ destination' = DestExtractDir
    /\ pc' = "call"
    /\ UNCHANGED <<stats, disk, result, sourceFiles, destFiles, poolVars,
                   toDelete, g>>

\* syncTarToTar: the inner Sync has returned; DryRun is restored
TarToTarResume ==
    /\ pc = "returned"
    /\ outer.active
    /\ options' = [options EXCEPT !.DryRun = outer.originalDryRun]
    /\ source' = outer.source
    /\ destination' = outer.destination
    /\ outer' = NoOuter
    /\ IF result = "error"
       THEN pc' = "cleanup" /\ UNCHANGED result
       ELSE IF outer.originalDryRun
       THEN pc' = "cleanup" /\ result' = "nil"
       ELSE pc' = "repack" /\ result' = "none"
    /\ UNCHANGED <<stats, disk, sourceFiles, destFiles, poolVars, toDelete,
                   g>>

\* syncTarToTar: the destination archive is created from the extracted
\* destination directory
TarToTarCreate ==
    /\ pc = "repack"
    /\ \E fault \in TarFaults :
        LET out == createTarFromDirectory(disk, options, DestExtractDir,
                                          destination, fault)
        IN /\ fault = "none" \/ (out.hit /\ g.faults < MaxFaults)
           /\ disk' = out.disk
           /\ result' = IF out.ok THEN "nil" ELSE "error"
           /\ g' = [g EXCEPT !.faults = IF out.hit THEN @ + 1 ELSE @]
    /\ pc' = "cleanup"
    /\ UNCHANGED <<options, stats, source, destination, sourceFiles,
                   destFiles, poolVars, toDelete, outer>>

\* os.RemoveAll(tempDir) called at the end of the success path only
TarToTarCleanupOnSuccess ==
    /\ pc = "cleanup"
    /\ disk' = IF result = "nil"
               THEN [disk EXCEPT ![TempDir] = Missing,
                                 ![SourceExtractDir] = Missing,
                                 ![DestExtractDir] = Missing]
               ELSE disk
    /\ pc' = "returned"
    /\ UNCHANGED <<options, stats, source, destination, result, sourceFiles,
                   destFiles, poolVars, toDelete, outer, g>>

\* syncTarToTar returns: defer os.RemoveAll(tempDir)
TarToTarCleanup ==
    /\ pc = "cleanup"
    /\ disk' = [disk EXCEPT ![TempDir] = Missing,
                            ![SourceExtractDir] = Missing,
                            ![DestExtractDir] = Missing]
    /\ pc' = "returned"
    /\ UNCHANGED <<options, stats, source, destination, result, sourceFiles,
                   destFiles, poolVars, toDelete, outer, g>>

(***************************************************************************)
(* Initial states.                                                         *)
(***************************************************************************)
\* the files a source can hold initially: one content, every mtime
SourceFileNodes == {FileNode(<<1>>, m) : m \in 1..MaxMTime}

\* the files a destination can hold initially: the source's content, one of
\* the same size and one of another size
FileNodes ==
    {FileNode(<<1>>, 1), FileNode(<<2>>, 1), FileNode(<<1, 2>>, MaxMTime)}

\* the number of entries of a tree
Entries(t) == Cardinality({p \in Paths : t[p].kind # "none"})

\* the well-formed trees over the given files; "d" is never a directory
TreesOver(nodes) ==
    {t \in [Paths -> nodes \cup {NoNode, DirNode}] :
        WellFormed(t) /\ t["d"].kind # "dir"}

\* the option records given to New
OptionsOver(methods, checksums, dry, del, rec, threads) ==
    [Method : methods, Checksum : checksums, DryRun : dry, Delete : del,
     Recursive : rec, Threads : threads, TarCompress : {FALSE},
     GPGEncrypt : {FALSE}, GPGSign : {FALSE}, GPGKeyID : {""}]

\* the disk with the two endpoints on it and no temporary directory
DiskWith(src, srcObj, dst, dstObj) ==
    (src :> srcObj) @@ (dst :> dstObj) @@ (TempDir :> Missing)
        @@ (SourceExtractDir :> Missing) @@ (DestExtractDir :> Missing)

\* no call has returned, no pool is running
Quiet ==
    /\ result = "none"
    /\ toQueue = {}
    /\ workChan = <<>>
    /\ workClosed = FALSE
    /\ errorChan = <<>>
    /\ errClosed = FALSE
    /\ wpc = [w \in Workers |-> "off"]
    /\ item = [w \in Workers |-> NoItem]
    /\ mu = 0
    /\ reg = [w \in Workers |-> NoReg]
    /\ toDelete = {}
    /\ outer = NoOuter

\* the state after New(o), before Sync(src, dst) is called
InitWith(o, src, dst, d) ==
    /\ options = New(o)
    /\ stats = ZeroStats
    /\ disk = d
    /\ source = src
    /\ destination = dst
    /\ pc = "call"
    /\ sourceFiles = NoFiles
    /\ destFiles = NoFiles
    /\ Quiet
    /\ g = NoRun(o)

\* the directory roots Sync can be given: a root that is missing or
\* cannot be read shows no entries
RootsOver(trees, statuses) ==
    {DirObj(s, IF s = "ok" THEN t ELSE EmptyTree) :
        s \in statuses, t \in trees}

\* directory to directory, with the given worker counts
InitDirWith(threads) ==
    \E o \in OptionsOver({"mtime", "size", "checksum"}, {FALSE}, BOOLEAN,
                         BOOLEAN, {TRUE}, threads),
       srcObj \in RootsOver(TreesOver(SourceFileNodes),
                            {"ok", "missing", "unreadable"}),
       dstObj \in RootsOver(TreesOver(FileNodes), {"ok", "missing"}) :
        /\ Entries(srcObj.tree) + Entries(dstObj.tree) <= MaxEntries
        /\ InitWith(o, SrcDir, DstDir,
                    DiskWith(SrcDir, srcObj, DstDir, dstObj))

InitDir == InitDirWith(1..MaxThreads)

\* the entries of the archives and directories of the archive flows
TarTrees == TreesOver({FileNode(<<1>>, 1), FileNode(<<1, 2>>, 1)})

\* an archive at either end
InitTar ==
    \E o \in OptionsOver({"mtime"}, {FALSE}, BOOLEAN, BOOLEAN, {TRUE}, {1}),
       src \in {SrcDir, SrcTar}, dst \in {DstDir, DstTar},
       st \in TarTrees, dt \in TarTrees, dstThere \in BOOLEAN :
        /\ src = SrcTar \/ dst = DstTar
        /\ Entries(st) + Entries(dt) <= MaxEntries
        /\ InitWith(o, src, dst,
              DiskWith(src,
                       IF src = SrcTar
                       THEN ArchiveObj(CreateLayers(ParseTarOptions(src)), st)
                       ELSE DirObj("ok", st),
                       dst,
                       IF ~dstThere THEN Missing
                       ELSE IF dst = DstTar
                       THEN ArchiveObj(CreateLayers(ParseTarOptions(dst)), dt)
                       ELSE DirObj("ok", dt)))

Init == InitDir \/ InitTar

PoolStep ==
    \/ Produce
    \/ CloseWork
    \/ \E w \in Workers : WorkerRecv(w)
    \/ \E w \in Workers : WorkerSync(w)
    \/ \E w \in Workers : WorkerExit(w)
    \/ CloseErrors
    \/ Collect
    \/ PoolReturn

NextDir ==
    \/ SyncCall
    \/ ScanSource
    \/ ScanDest
    \/ MakeDest
    \/ StartPool
    \/ PoolStep
    \/ DeleteStep
    \/ SyncReturn

SpecDir == InitDir /\ [][NextDir]_vars

\* Sync called up to MaxRuns times on the same Syncer and directories
NextTwice == NextDir \/ SyncAgain

InitTwice == InitDirWith({1})

SpecTwice == InitTwice /\ [][NextTwice]_vars

TarStep ==
    \/ TarExtract
    \/ TarCreate
    \/ TarToTarTemp
    \/ TarToTarSource
    \/ TarToTarDest
    \/ TarToTarSync
    \/ TarToTarResume
    \/ TarToTarCreate
    \/ TarToTarCleanup

Next == NextDir \/ TarStep

Spec == Init /\ [][Next]_vars

(***************************************************************************)
(* The comparator on its own: shouldSync applied to one source entry and   *)
(* a destination map, as the scan can produce them.                        *)
(***************************************************************************)
\* the entry the walk callback records when calculateChecksum fails
WithoutChecksum(fileInfo) == [fileInfo EXCEPT !.Checksum = NoChecksum]

\* the nodes the compared entries are scanned from
CompareNodes ==
    {FileNode(c, m) : c \in Contents, m \in 1..MaxMTime}
        \cup {[DirNode EXCEPT !.mtime = m] : m \in 0..MaxMTime}

\* the methods given to New
Methods == {"", "mtime", "size", "checksum", "bogus"}

\* the state before shouldSync is called on the entry of path "a"
InitCompare ==
    \E o \in OptionsOver(Methods, BOOLEAN, {FALSE}, {FALSE}, {TRUE}, {1}),
       sn \in CompareNodes, dn \in CompareNodes \cup {NoNode},
       sdigest \in BOOLEAN, ddigest \in BOOLEAN :
        LET st == [EmptyTree EXCEPT !["a"] = sn]
            dt == [EmptyTree EXCEPT !["a"] = dn]
            se == ScanEntry(st, "a", New(o))
            de == ScanEntry(dt, "a", New(o))
        IN /\ options = New(o)
           /\ stats = ZeroStats
           /\ disk = DiskWith(SrcDir, DirObj("ok", st), DstDir, DirObj("ok", dt))
           /\ source = SrcDir
           /\ destination = DstDir
           /\ pc = "compare"
           /\ sourceFiles = ("a" :> IF sdigest THEN se ELSE WithoutChecksum(se))
           /\ destFiles = IF dn = NoNode THEN NoFiles
                          ELSE ("a" :> IF ddigest THEN de
                                        ELSE WithoutChecksum(de))
           /\ Quiet
           /\ g = NoRun(o)

\* shouldSync is called
Compare ==
    /\ pc = "compare"
    /\ result' = IF shouldSync(options, sourceFiles["a"], destFiles)
                 THEN "sync" ELSE "skip"
    /\ pc' = "compared"
    /\ UNCHANGED <<options, stats, disk, source, destination, sourceFiles,
                   destFiles, poolVars, toDelete, outer, g>>

NextCompare == Compare

SpecCompare == InitCompare /\ [][NextCompare]_vars

(***************************************************************************)
(* The worker pool step by step: every system call of syncFile and every  *)
(* read and write of Syncer.stats is a step of its own, so that workers     *)
(* interleave inside syncFile as goroutines do.                            *)
(***************************************************************************)
\* the critical sections of the statistics helpers: the fields written
\* between s.mu.Lock() and s.mu.Unlock(), in order, with what is added
DirToCreateSection == << <<"DirsToCreate", 1>> >>
FileToCopySection(bytes) == << <<"FilesToCopy", 1>>, <<"BytesToCopy", bytes>> >>
DirCreatedSection == << <<"DirsCreated", 1>> >>
CopiedSection(bytes) == << <<"FilesCopied", 1>>, <<"BytesCopied", bytes>> >>
ErrorSection(e) == << <<"Errors", e>> >>

\* what a step of worker w leaves alone besides the variables it names
PoolFrame == <<options, source, destination, pc, result, sourceFiles,
               destFiles, toQueue, workChan, workClosed, errClosed, toDelete,
               outer>>

\* the worker goes back to the head of its loop
BackToRecv(w) ==
    /\ wpc' = [wpc EXCEPT ![w] = "recv"]
    /\ item' = [item EXCEPT ![w] = NoItem]

\* the history after the environment made a step fail (fault # "none")
Injected(h, p, fault, k) ==
    IF fault = "none" THEN h
    ELSE [h EXCEPT !.faults = @ + 1, !.injected = @ \cup {<<p, fault, k>>}]

\* syncFile returns an error: the worker sends it and goes back
FailWith(w, msg, fault, k) ==
    /\ errorChan' = Append(errorChan, <<msg, item[w].Path>>)
    /\ BackToRecv(w)
    /\ g' = [Injected(g, item[w].Path, fault, k) EXCEPT !.failed = @ + 1]

\* the worker goes on to its next step, with the critical sections todo
GoOn(w, next, todo) ==
    /\ wpc' = [wpc EXCEPT ![w] = next]
    /\ reg' = [reg EXCEPT ![w].todo = todo]
    /\ UNCHANGED <<item, errorChan>>

\* the environment may make one more step fail
MayInject(fault) == fault = "none" \/ g.faults < MaxFaults

\* DryRun: syncDirectory and syncRegularFile only count
FDry(w) ==
    /\ pc = "pool"
    /\ wpc[w] = "sync"
    /\ options.DryRun
    /\ GoOn(w, "lock", IF item[w].IsDir THEN <<DirToCreateSection>>
                       ELSE <<FileToCopySection(item[w].Size)>>)
    /\ UNCHANGED <<PoolFrame, stats, disk, mu, g>>

\* syncDirectory with os.Mkdir in place of os.MkdirAll: an existing
\* directory is an error
FMkdirExclusive(w) ==
    /\ pc = "pool"
    /\ wpc[w] = "sync"
    /\ ~options.DryRun
    /\ item[w].IsDir
    /\ LET p == item[w].Path
           t == disk[destination].tree
       IN \E fault \in {"none", "mkdir"} :
           /\ MayInject(fault)
           /\ IF fault = "mkdir" \/ ~MkdirAllOk(t, p) \/ t[p].kind = "dir"
              THEN /\ FailWith(w, "failed to create directory", fault, 0)
                   /\ UNCHANGED <<disk, reg>>
              ELSE /\ disk' = [disk EXCEPT ![destination].tree =
                                              MkdirAll(t, p)]
                   /\ GoOn(w, "lock", <<DirCreatedSection>>)
                   /\ g' = [g EXCEPT !.okMkdir = @ + 1,
                                     !.written = @ \cup {p}]
    /\ UNCHANGED <<PoolFrame, stats, mu>>

\* syncDirectory: os.MkdirAll(destPath)
FMkdir(w) ==
    /\ pc = "pool"
    /\ wpc[w] = "sync"
    /\ ~options.DryRun
    /\ item[w].IsDir
    /\ LET p == item[w].Path
           t == disk[destination].tree
       IN \E fault \in {"none", "mkdir"} :
           /\ MayInject(fault)
           /\ IF fault = "mkdir" \/ ~MkdirAllOk(t, p)
              THEN /\ FailWith(w, "failed to create directory", fault, 0)
                   /\ UNCHANGED <<disk, reg>>
              ELSE /\ disk' = [disk EXCEPT ![destination].tree =
                                              MkdirAll(t, p)]
                   /\ GoOn(w, "lock", <<DirCreatedSection>>)
                   /\ g' = [g EXCEPT !.okMkdir = @ + 1,
                                     !.written = @ \cup {p}]
    /\ UNCHANGED <<PoolFrame, stats, mu>>

\* syncRegularFile: os.Stat(sourcePath)
FStat(w) ==
    /\ pc = "pool"
    /\ wpc[w] = "sync"
    /\ ~options.DryRun
    /\ ~item[w].IsDir
    /\ \E fault \in {"none", "stat"} :
        /\ MayInject(fault)
        /\ IF fault = "stat"
                \/ disk[source].tree[item[w].Path].kind = "none"
           THEN /\ FailWith(w, "failed to get source file info", fault, 0)
                /\ UNCHANGED reg
           ELSE /\ GoOn(w, "mkparent", <<>>)
                /\ UNCHANGED g
    /\ UNCHANGED <<PoolFrame, stats, disk, mu>>

\* syncRegularFile going on to copyFile without os.MkdirAll
FMkParentSkipped(w) ==
    /\ pc = "pool"
    /\ wpc[w] = "mkparent"
    /\ GoOn(w, "create", <<>>)
    /\ UNCHANGED <<PoolFrame, stats, disk, mu, g>>

\* syncRegularFile: os.MkdirAll(filepath.Dir(destPath))
FMkParent(w) ==
    /\ pc = "pool"
    /\ wpc[w] = "mkparent"
    /\ LET p == item[w].Path
           t == disk[destination].tree
       IN \E fault \in {"none", "mkparent"} :
           /\ MayInject(fault)
           /\ IF fault = "mkparent" \/ ~MkdirAllOk(t, Parent(p))
              THEN /\ FailWith(w, "failed to create destination directory",
                               fault, 0)
                   /\ UNCHANGED <<disk, reg>>
              ELSE /\ disk' = [disk EXCEPT ![destination].tree =
                                              MkdirAll(t, Parent(p))]
                   /\ GoOn(w, "create", <<>>)
                   /\ UNCHANGED g
    /\ UNCHANGED <<PoolFrame, stats, mu>>

\* os.Create(dst) succeeds: the directory of dst exists and dst is no
\* directory
CreateOk(t, p) ==
    /\ Parent(p) = "." \/ t[Parent(p)].kind = "dir"
    /\ t[p].kind # "dir"

\* copyFile: os.Open(src), os.Create(dst); the file is there, empty
FCreate(w) ==
    /\ pc = "pool"
    /\ wpc[w] = "create"
    /\ LET p == item[w].Path
           t == disk[destination].tree
       IN \E fault \in {"none", "open", "create"} :
           /\ MayInject(fault)
           /\ IF fault # "none" \/ disk[source].tree[p].kind # "file"
                   \/ ~CreateOk(t, p)
              THEN /\ FailWith(w, "failed to copy file", fault, 0)
                   /\ UNCHANGED <<disk, reg>>
              ELSE /\ disk' = [disk EXCEPT ![destination].tree[p] =
                                  Rewritten(t[p], <<>>, Now, CreateMode)]
                   /\ GoOn(w, "write", <<>>)
                   /\ UNCHANGED g
    /\ UNCHANGED <<PoolFrame, stats, mu>>

\* copyFile: io.Copy(destination, source); a failing copy leaves the first
\* k bytes behind
FWrite(w) ==
    /\ pc = "pool"
    /\ wpc[w] = "write"
    /\ LET p == item[w].Path
           c == disk[source].tree[p].content
           old == disk[destination].tree[p]
       IN \E fault \in {"none", "write"}, k \in 0..1 :
           /\ MayInject(fault)
           /\ IF fault = "write"
              THEN /\ k < Len(c)
                   /\ disk' = [disk EXCEPT ![destination].tree[p] =
                                  Rewritten(old, SubSeq(c, 1, k), Now,
                                            CreateMode)]
                   /\ FailWith(w, "failed to copy file", fault, k)
                   /\ UNCHANGED reg
              ELSE /\ k = 0
                   /\ disk' = [disk EXCEPT ![destination].tree[p] =
                                  Rewritten(old, c, Now, CreateMode)]
                   /\ GoOn(w, "chtimes", <<>>)
                   /\ UNCHANGED g
    /\ UNCHANGED <<PoolFrame, stats, mu>>

\* syncRegularFile: os.Chtimes(destPath); a failure is logged by addError
\* and the copy is counted all the same
FChtimes(w) ==
    /\ pc = "pool"
    /\ wpc[w] = "chtimes"
    /\ LET p == item[w].Path IN
       \E fault \in {"none", "chtimes"} :
           /\ MayInject(fault)
           /\ IF fault = "chtimes"
              THEN /\ GoOn(w, "lock",
                           <<ErrorSection(<<"Failed to preserve timestamps",
                                            p>>),
                             CopiedSection(item[w].Size)>>)
                   /\ g' = [Injected(g, p, fault, 0) EXCEPT
                               !.failed = @ + 1, !.okCopy = @ + 1,
                               !.written = @ \cup {p}]
                   /\ UNCHANGED disk
              ELSE /\ disk' = [disk EXCEPT ![destination].tree[p].mtime =
                                  disk[source].tree[p].mtime]
                   /\ GoOn(w, "lock", <<CopiedSection(item[w].Size)>>)
                   /\ g' = [g EXCEPT !.okCopy = @ + 1,
                                     !.written = @ \cup {p}]
    /\ UNCHANGED <<PoolFrame, stats, mu>>

\* the critical section a worker enters next is that of incrementCopied
EntersCopied(w) == Head(reg[w].todo)[1][1] = "FilesCopied"

\* s.mu.Lock() that does not wait for the holder
FLockNoWait(w) ==
    /\ pc = "pool"
    /\ wpc[w] = "lock"
    /\ mu' = w
    /\ wpc' = [wpc EXCEPT ![w] = "read"]
    /\ g' = IF EntersCopied(w)
            THEN [g EXCEPT !.counted = @ \cup {item[w].Path}] ELSE g
    /\ UNCHANGED <<PoolFrame, stats, disk, errorChan, item, reg>>

\* s.mu.Lock()
FLock(w) ==
    /\ pc = "pool"
    /\ wpc[w] = "lock"
    /\ mu = 0
    /\ mu' = w
    /\ wpc' = [wpc EXCEPT ![w] = "read"]
    /\ g' = IF EntersCopied(w)
            THEN [g EXCEPT !.counted = @ \cup {item[w].Path}] ELSE g
    /\ UNCHANGED <<PoolFrame, stats, disk, errorChan, item, reg>>

\* the field of s.stats is read (the first half of ++, += and append)
FRead(w) ==
    /\ pc = "pool"
    /\ wpc[w] = "read"
    /\ reg' = [reg EXCEPT ![w].val = stats[Head(reg[w].todo)[1][1]]]
    /\ wpc' = [wpc EXCEPT ![w] = "store"]
    /\ UNCHANGED <<PoolFrame, stats, disk, errorChan, item, mu, g>>

\* the field of s.stats is written (the second half)
FStore(w) ==
    /\ pc = "pool"
    /\ wpc[w] = "store"
    /\ LET section == Head(reg[w].todo)
           field == section[1][1]
           amount == section[1][2]
       IN /\ stats' = [stats EXCEPT ![field] =
                          IF field = "Errors" THEN Append(reg[w].val, amount)
                          ELSE reg[w].val + amount]
          /\ reg' = [reg EXCEPT ![w] =
                        [todo |-> <<Tail(section)>> \o Tail(reg[w].todo),
                         val |-> 0]]
          /\ wpc' = [wpc EXCEPT ![w] = IF Tail(section) = <<>>
                                       THEN "unlock" ELSE "read"]
    /\ UNCHANGED <<PoolFrame, disk, errorChan, item, mu, g>>

\* s.mu.Unlock(); the helper returns, and syncFile with it unless another
\* helper is still to be called
FUnlock(w) ==
    /\ pc = "pool"
    /\ wpc[w] = "unlock"
    /\ mu' = 0
    /\ reg' = [reg EXCEPT ![w].todo = Tail(@)]
    /\ IF Tail(reg[w].todo) = <<>>
       THEN BackToRecv(w)
       ELSE /\ wpc' = [wpc EXCEPT ![w] = "lock"]
            /\ UNCHANGED item
    /\ UNCHANGED <<PoolFrame, stats, disk, errorChan, g>>

\* the collector's addError: it takes the mutex as the workers do
FCollect ==
    /\ mu = 0
    /\ Collect

\* the files of the sources of the step-wise pool: two sizes, two mtimes
PoolFileNodes == {FileNode(<<1>>, 1), FileNode(<<1, 2>>, MaxMTime)}

\* directory to directory, roots readable, one to MaxThreads workers
InitPool ==
    \E o \in OptionsOver({"mtime"}, {FALSE}, BOOLEAN, BOOLEAN, {TRUE},
                         1..MaxThreads),
       srcObj \in RootsOver(TreesOver(PoolFileNodes), {"ok"}),
       dstObj \in RootsOver(TreesOver(FileNodes), {"ok", "missing"}) :
        /\ Entries(srcObj.tree) + Entries(dstObj.tree) <= MaxEntries
        /\ InitWith(o, SrcDir, DstDir,
                    DiskWith(SrcDir, srcObj, DstDir, dstObj))

\* a step of a worker inside syncFile
FineStep(w) ==
    \/ FDry(w)
    \/ FMkdir(w)
    \/ FStat(w)
    \/ FMkParent(w)
    \/ FCreate(w)
    \/ FWrite(w)
    \/ FChtimes(w)
    \/ FLock(w)
    \/ FRead(w)
    \/ FStore(w)
    \/ FUnlock(w)

NextPool ==
    \/ SyncCall
    \/ ScanSource
    \/ ScanDest
    \/ MakeDest
    \/ StartPool
    \/ Produce
    \/ CloseWork
    \/ \E w \in Workers : WorkerRecv(w)
    \/ \E w \in Workers : FineStep(w)
    \/ \E w \in Workers : WorkerExit(w)
    \/ CloseErrors
    \/ FCollect
    \/ PoolReturn
    \/ DeleteStep
    \/ SyncReturn

SpecPool == InitPool /\ [][NextPool]_vars

(***************************************************************************)
(* The goroutines of processFiles under the Go scheduler: a goroutine that *)
(* can take a step is not left waiting for ever.                           *)
(***************************************************************************)
\* the producer goroutine
Producer == Produce \/ CloseWork

\* the goroutine that waits for the workers and closes the error channel
Closer == CloseErrors

\* the collector loop of processFiles, and its return
Collector == Collect \/ PoolReturn

\* the goroutine of worker w
Worker(w) == WorkerRecv(w) \/ WorkerSync(w) \/ WorkerExit(w)

Fairness ==
    /\ WF_vars(Producer)
    /\ WF_vars(Closer)
    /\ WF_vars(Collector)
    /\ \A w \in Workers : WF_vars(Worker(w))

\* directory to directory without Delete, roots readable, one to MaxThreads
\* workers
InitLive ==
    \E o \in OptionsOver({"mtime"}, {FALSE}, BOOLEAN, {FALSE}, {TRUE},
                         1..MaxThreads),
       srcObj \in RootsOver(TreesOver(SourceFileNodes), {"ok"}),
       dstObj \in RootsOver(TreesOver(FileNodes), {"ok", "missing"}) :
        /\ Entries(srcObj.tree) + Entries(dstObj.tree) <= MaxEntries
        /\ InitWith(o, SrcDir, DstDir,
                    DiskWith(SrcDir, srcObj, DstDir, dstObj))

\* Sync up to the return of processFiles
NextLive ==
    \/ SyncCall
    \/ ScanSource
    \/ ScanDest
    \/ MakeDest
    \/ StartPool
    \/ PoolStep

SpecLive == InitLive /\ [][NextLive]_vars /\ Fairness

(***************************************************************************)
(* The scan on its own, recursive or not.                                  *)
(***************************************************************************)
\* the state before Sync scans a source root, recursive or not
InitScan ==
    \E o \in OptionsOver({"mtime", "checksum"}, BOOLEAN, {FALSE}, {FALSE},
                         BOOLEAN, {1}),
       srcObj \in RootsOver(TreesOver(FileNodes),
                            {"ok", "missing", "unreadable"}) :
        InitWith(o, SrcDir, DstDir, DiskWith(SrcDir, srcObj, DstDir, Missing))

NextScan == SyncCall \/ ScanSource

SpecScan == InitScan /\ [][NextScan]_vars

(***************************************************************************)
(* The scan of a root in which some files cannot be read, so that          *)
(* calculateChecksum fails on them.                                        *)
(***************************************************************************)
\* the files of a root that the scan computes a checksum of
Digested(root, o) ==
    {p \in DOMAIN buildFileMap(root, o) :
        shouldCalculateChecksum(o) /\ root.tree[p].kind = "file"}

\* buildFileMap when calculateChecksum fails on the files in unreadable: the
\* entry is recorded all the same, without a checksum
buildFileMapUnreadable(root, o, unreadable) ==
    LET files == buildFileMap(root, o) IN
    [p \in DOMAIN files |->
        IF p \in unreadable THEN WithoutChecksum(files[p]) ELSE files[p]]

RECURSIVE ChecksumErrors(_, _, _)
\* the statistics after the addError calls for the failed checksums, in walk
\* order
ChecksumErrors(order, st, unreadable) ==
    IF order = <<>> THEN st
    ELSE ChecksumErrors(Tail(order),
             IF Head(order) \in unreadable
             THEN addError(st, <<"Failed to calculate checksum for",
                                 Head(order)>>)
             ELSE st,
             unreadable)

\* sourceFiles, err := s.buildFileMap(source, "") with unreadable files
ScanUnreadable ==
    /\ pc = "scanSource"
    /\ \E unreadable \in SUBSET Digested(disk[source], options) :
        /\ unreadable # {}
        /\ g.faults + Cardinality(unreadable) <= MaxFaults
        /\ sourceFiles' = buildFileMapUnreadable(disk[source], options,
                                                 unreadable)
        /\ stats' = ScanStats(ChecksumErrors(WalkOrder, stats, unreadable),
                              disk[source], sourceFiles')
        /\ g' = [g EXCEPT !.faults = @ + Cardinality(unreadable),
                          !.injected =
                              @ \cup {<<p, "checksum", 0>> : p \in unreadable}]
    /\ pc' = "scanDest"
    /\ UNCHANGED <<options, disk, source, destination, result, destFiles,
                   poolVars, toDelete, outer>>

NextChecksum == SyncCall \/ ScanSource \/ ScanUnreadable

SpecChecksum == InitScan /\ [][NextChecksum]_vars

(***************************************************************************)
(* An archive made by Create and read back by Extract, with one set of    *)
(* TarOptions (tar.New, then the two calls).                               *)
(***************************************************************************)
\* the path name of the archive
RoundTar == <<"rt", ".tar">>

\* the TarOptions given to tar.New
RoundOptions ==
    [Compression |-> options.TarCompress, GPGEncrypt |-> options.GPGEncrypt,
     GPGSign |-> options.GPGSign, GPGKeyID |-> options.GPGKeyID]

\* a directory to archive, no archive yet and an empty directory to extract
\* into
InitRound ==
    \E o \in OptionsOver({"mtime"}, {FALSE}, {FALSE}, {FALSE}, {TRUE}, {1}),
       compress \in BOOLEAN, encrypt \in BOOLEAN, key \in {"", "key"},
       t \in TarTrees :
        LET ro == [o EXCEPT !.TarCompress = compress, !.GPGEncrypt = encrypt,
                            !.GPGKeyID = key]
        IN /\ options = New(ro)
           /\ stats = ZeroStats
           /\ disk = DiskWith(SrcDir, DirObj("ok", t),
                              DstDir, DirObj("ok", EmptyTree))
                         @@ (RoundTar :> Missing)
           /\ source = SrcDir
           /\ destination = DstDir
           /\ pc = "roundCreate"
           /\ sourceFiles = NoFiles
           /\ destFiles = NoFiles
           /\ Quiet
           /\ g = NoRun(ro)

\* archive.Create(sourceDir)
RoundCreate ==
    /\ pc = "roundCreate"
    /\ \E fault \in {"none", "create"} :
        LET c == Create(disk[source], RoundOptions, fault)
        IN /\ fault = "none" \/ (c.hit /\ g.faults < MaxFaults)
           /\ disk' = AfterCreate(disk, RoundTar, c)
           /\ result' = IF c.ok THEN "none" ELSE "error"
           /\ pc' = IF c.ok THEN "roundExtract" ELSE "roundDone"
           /\ g' = [g EXCEPT !.faults = IF c.hit THEN @ + 1 ELSE @]
    /\ UNCHANGED <<options, stats, source, destination, sourceFiles,
                   destFiles, poolVars, toDelete, outer>>

\* archive.Extract(extractDir)
RoundExtract ==
    /\ pc = "roundExtract"
    /\ LET x == Extract(disk[RoundTar], SignatureOf(disk, RoundTar),
                         RoundOptions, disk[destination].tree)
       IN /\ disk' = [disk EXCEPT ![destination].tree = x.tree]
          /\ result' = IF x.ok THEN "nil" ELSE "error"
    /\ pc' = "roundDone"
    /\ UNCHANGED <<options, stats, source, destination, sourceFiles,
                   destFiles, poolVars, toDelete, outer, g>>

NextRound == RoundCreate \/ RoundExtract

SpecRound == InitRound /\ [][NextRound]_vars

(***************************************************************************)
(* Directory to directory, the files with various permission bits.         *)
(***************************************************************************)
\* the files of the source: one content, newer than the destination's
ModeSourceNodes == {WithMode(FileNode(<<1>>, MaxMTime), m) : m \in Modes}

\* the files of the destination
ModeDestNodes == {WithMode(FileNode(<<2>>, 1), m) : m \in Modes}

InitMode ==
    \E o \in OptionsOver({"mtime"}, {FALSE}, BOOLEAN, BOOLEAN, {TRUE}, {1}),
       srcObj \in RootsOver(TreesOver(ModeSourceNodes), {"ok"}),
       dstObj \in RootsOver(TreesOver(ModeDestNodes), {"ok", "missing"}) :
        /\ Entries(srcObj.tree) + Entries(dstObj.tree) <= MaxEntries
        /\ InitWith(o, SrcDir, DstDir,
                    DiskWith(SrcDir, srcObj, DstDir, dstObj))

SpecMode == InitMode /\ [][NextDir]_vars

(***************************************************************************)
(* The choice of the flow from the names of the two endpoints.             *)
(***************************************************************************)
\* endings of names that are archives, in lower, upper and mixed case
ArchiveEndings ==
    {<<".tar">>, <<".tar", ".gz">>, <<".tgz">>, <<".tar", ".gpg">>,
     <<".tar", ".gz", ".gpg">>, <<".tgz", ".gpg">>, <<".TAR">>,
     <<".Tar", ".GZ">>, <<".TGZ", ".GPG">>}

\* endings of names that are not: no extension, an archive extension
\* followed by another one, the compression or encryption extension alone
PlainEndings ==
    {<<>>, <<".txt">>, <<".zip">>, <<".gz">>, <<".gpg">>, <<".gz", ".gpg">>,
     <<".tar", ".bak">>, <<".tar", ".sig">>, <<".tgz", ".gz">>}

\* Sync is about to be called on two names
InitDispatch ==
    \E o \in OptionsOver({"mtime"}, {FALSE}, {FALSE}, {FALSE}, {TRUE}, {1}),
       se \in ArchiveEndings \cup PlainEndings,
       de \in ArchiveEndings \cup PlainEndings :
        InitWith(o, <<"in">> \o se, <<"out">> \o de,
                 DiskWith(<<"in">> \o se, Missing, <<"out">> \o de, Missing))

NextDispatch == SyncCall

SpecDispatch == InitDispatch /\ [][NextDispatch]_vars

(***************************************************************************)
(* Archive to directory, with a detached signature next to the archive.   *)
(***************************************************************************)
\* Sync(archive, directory) with signing configured or not, the signature
\* file absent, good or bad
InitSig ==
    \E o \in OptionsOver({"mtime"}, {FALSE}, BOOLEAN, {FALSE}, {TRUE}, {1}),
       sign \in BOOLEAN, t \in TarTrees,
       sigStatus \in {"missing", "sig", "badsig"}, dstThere \in BOOLEAN :
        InitWith([o EXCEPT !.GPGSign = sign, !.GPGKeyID = "key"],
                 SrcTar, DstDir,
                 DiskWith(SrcTar,
                          ArchiveObj(CreateLayers(ParseTarOptions(SrcTar)), t),
                          DstDir,
                          IF dstThere THEN DirObj("ok", EmptyTree)
                          ELSE Missing)
                     @@ (SignaturePath(SrcTar) :> SigObj(sigStatus)))

NextSig == SyncCall \/ TarExtract

SpecSig == InitSig /\ [][NextSig]_vars

(***************************************************************************)
(* A directory archived by Sync and the archive restored by Sync, with the *)
(* same Syncer.                                                            *)
(***************************************************************************)
\* the names the archive is given: one that implies nothing, one that
\* implies compression, one that implies compression and encryption
BackupTars ==
    {<<"bk", ".tar">>, <<"bk", ".tar", ".gz">>, <<"bk", ".tgz", ".gpg">>}

\* Sync(directory, archive) is about to be called; the archive does not
\* exist and the directory to restore into is empty
InitBackup ==
    \E o \in OptionsOver({"mtime"}, {FALSE}, BOOLEAN, {FALSE}, {TRUE}, {1}),
       compress \in BOOLEAN, encrypt \in BOOLEAN, tarPath \in BackupTars,
       t \in TarTrees :
        InitWith([o EXCEPT !.TarCompress = compress, !.GPGEncrypt = encrypt,
                           !.GPGKeyID = "key"],
                 SrcDir, tarPath,
                 DiskWith(SrcDir, DirObj("ok", t), tarPath, Missing)
                     @@ (DstDir :> DirObj("ok", EmptyTree)))

\* the caller calls Sync(archive, directory) on the archive just made
SyncBack ==
    /\ pc = "returned"
    /\ result = "nil"
    /\ IsTarFile(destination)
    /\ source' = destination
    /\ destination' = DstDir
    /\ pc' = "call"
    /\ UNCHANGED <<options, stats, disk, result, sourceFiles, destFiles,
                   poolVars, toDelete, outer, g>>

NextBackup == SyncCall \/ TarCreate \/ SyncBack \/ TarExtract

SpecBackup == InitBackup /\ [][NextBackup]_vars

(***************************************************************************)
(* The scan of a root that holds symbolic links whose target is gone.      *)
(***************************************************************************)
\* a symbolic link whose target cannot be reached: filepath.Walk reports it
\* by Lstat, as a non-directory with the symlink mode bit
LinkNode == [kind |-> "link", content |-> <<1>>, mtime |-> 1, mode |-> NoMode]

\* the recorded entries of a root that are broken links
BrokenLinks(root, o) ==
    {p \in DOMAIN buildFileMap(root, o) : root.tree[p].kind = "link"}

\* the walk callback returns early for p: the symlink test is made only
\* where a checksum is to be computed
SkippedLink(root, o, p) ==
    /\ p \in BrokenLinks(root, o)
    /\ shouldCalculateChecksum(o)
    /\ o.SkipBrokenLinks

\* the walk callback appends the warning for p
WarnedLink(root, o, p) ==
    /\ p \in BrokenLinks(root, o)
    /\ shouldCalculateChecksum(o)
    /\ ~o.SkipBrokenLinks
    /\ o.Verbose

\* buildFileMap on a root with broken links
buildFileMapLinks(root, o) ==
    LET files == buildFileMap(root, o) IN
    [p \in {q \in DOMAIN files : ~SkippedLink(root, o, q)} |-> files[p]]

RECURSIVE LinkWarnings(_, _, _, _)
\* the statistics after the addError calls for the broken links, in walk
\* order
LinkWarnings(order, st, root, o) ==
    IF order = <<>> THEN st
    ELSE LinkWarnings(Tail(order),
             IF WarnedLink(root, o, Head(order))
             THEN addError(st, <<"Warning: broken symlink", Head(order)>>)
             ELSE st,
             root, o)

\* sourceFiles, err := s.buildFileMap(source, "") on a root with broken links
ScanLinks ==
    /\ pc = "scanSource"
    /\ sourceFiles' = buildFileMapLinks(disk[source], options)
    /\ stats' = ScanStats(LinkWarnings(WalkOrder, stats, disk[source], options),
                          disk[source], sourceFiles')
    /\ pc' = "scanDest"
    /\ UNCHANGED <<options, disk, source, destination, result, destFiles,
                   poolVars, toDelete, outer, g>>

\* a source of files and broken links, every method, with and without the
\* Checksum, SkipBrokenLinks and Verbose options
InitLinks ==
    \E o \in OptionsOver({"mtime", "size", "checksum"}, BOOLEAN, {FALSE},
                         {FALSE}, {TRUE}, {1}),
       skip \in BOOLEAN, verbose \in BOOLEAN,
       t \in TreesOver({FileNode(<<1>>, 1), LinkNode}) :
        InitWith(o @@ [SkipBrokenLinks |-> skip, Verbose |-> verbose],
                 SrcDir, DstDir,
                 DiskWith(SrcDir, DirObj("ok", t), DstDir, Missing))

NextLinks == SyncCall \/ ScanLinks

SpecLinks == InitLinks /\ [][NextLinks]_vars

(***************************************************************************)
(* A directory archived under names of various shapes: ParseTarOptions on  *)
(* the name decides the layers of the archive.                             *)
(***************************************************************************)
\* what comes before the archive ending in a name: a plain stem, a stem
\* below a directory whose name holds ".gz", a stem followed by ".gz" or by
\* ".TGZ"
NameStems ==
    {<<"bk">>, <<"old", ".gz", "/", "bk">>, <<"bk", ".gz">>, <<"bk", ".TGZ">>}

\* Sync(directory, archive) is about to be called; the archive does not
\* exist
InitParse ==
    \E o \in OptionsOver({"mtime"}, {FALSE}, BOOLEAN, {FALSE}, {TRUE}, {1}),
       stem \in NameStems, e \in ArchiveEndings, t \in TarTrees :
        /\ Entries(t) <= 1
        /\ InitWith([o EXCEPT !.GPGKeyID = "key"], SrcDir, stem \o e,
                    DiskWith(SrcDir, DirObj("ok", t), stem \o e, Missing))

NextParse == SyncCall \/ TarCreate

SpecParse == InitParse /\ [][NextParse]_vars

(***************************************************************************)
(* An archive made by Create with or without a signature, and read back by *)
(* Extract with the same TarOptions.                                       *)
(***************************************************************************)
\* a directory to archive, signing on or off, no archive and no signature
\* yet, and an empty directory to extract into
InitSign ==
    \E o \in OptionsOver({"mtime"}, {FALSE}, {FALSE}, {FALSE}, {TRUE}, {1}),
       compress \in BOOLEAN, encrypt \in BOOLEAN, sign \in BOOLEAN,
       key \in {"", "key"}, t \in TarTrees :
        LET ro == [o EXCEPT !.TarCompress = compress, !.GPGEncrypt = encrypt,
                            !.GPGSign = sign, !.GPGKeyID = key]
        IN /\ Entries(t) <= 2
           /\ options = New(ro)
           /\ stats = ZeroStats
           /\ disk = DiskWith(SrcDir, DirObj("ok", t),
                              DstDir, DirObj("ok", EmptyTree))
                         @@ (RoundTar :> Missing)
                         @@ (SignaturePath(RoundTar) :> Missing)
           /\ source = SrcDir
           /\ destination = DstDir
           /\ pc = "roundCreate"
           /\ sourceFiles = NoFiles
           /\ destFiles = NoFiles
           /\ Quiet
           /\ g = NoRun(ro)

SpecSign == InitSign /\ [][NextRound]_vars

(***************************************************************************)
(* The claims.                                                             *)
(***************************************************************************)
\* a top-level Sync call has returned
Returned == pc = "returned" /\ ~outer.active

\* the type of the entry at p: "none", "file" or "dir"
KindAt(root, p) == disk[root].tree[p].kind

\* C1: after a non-dry-run directory-to-directory Sync(A, B), a second
\* Sync(A, B) with A unchanged queues no entry for copy or mkdir and deletes
\* nothing, for every initial B, type mismatches included.
C1_SecondRunDoesNothing ==
    (Returned /\ g.runs >= 2 /\ ~g.dry /\ g.faults = 0)
        => (g.queued = {} /\ g.removed = {})

\* C2: with DryRun set, the destination of Sync is left as it was, whatever
\* the two endpoints are (directory or archive) and whether or not Delete is
\* set: nothing in it is created, overwritten, re-timestamped or removed, a
\* missing destination root stays missing and an existing destination
\* archive is not rewritten.
C2_DryRunLeavesDestination ==
    (g.runs >= 1 /\ g.dry) => disk[g.dest] = g.dst0

\* a dry run from an archive to an existing archive with other entries has
\* returned nil
C2_Witness ==
    /\ Returned
    /\ g.dry
    /\ result = "nil"
    /\ source = SrcTar
    /\ g.dest = DstTar
    /\ g.dst0.status = "archive"
    /\ disk[SrcTar].tree # g.dst0.tree
    /\ options.Delete

\* C3: after a non-dry-run, recursive, directory-to-directory Sync(A, B)
\* with Delete set, B holds exactly the (path, type) entries of A, for every
\* initial B, type mismatches included.
C3_MirrorAfterDelete ==
    (Returned /\ result = "nil" /\ ~g.dry /\ g.faults = 0 /\ options.Delete
        /\ options.Recursive /\ disk[source].status = "ok")
        => \A p \in Paths : KindAt(destination, p) = KindAt(source, p)

\* C4: if the source root of a directory-to-directory Sync does not exist
\* or cannot be read, Sync returns an error and nothing is copied into or
\* deleted from the destination, even with Delete set.
C4_UnreadableSourceIsFatal ==
    (Returned /\ disk[source].status # "ok")
        => (result = "error" /\ disk[destination].tree = g.dst0.tree)

\* C5: when the source entry and the destination entry of a path differ in
\* type, a non-dry-run Sync leaves the destination path with the type of
\* the source.
C5_TypeMismatchOverwritten ==
    (Returned /\ result = "nil" /\ ~g.dry /\ g.faults = 0)
        => \A p \in DOMAIN sourceFiles \cap DOMAIN destFiles :
              sourceFiles[p].IsDir # destFiles[p].IsDir
                  => KindAt(destination, p) = KindAt(source, p)

\* C6: with Delete not set, every destination entry whose path is not in
\* the source map is still there, with its type, content and mtime, at
\* every moment after the scan of a directory-to-directory Sync, whatever
\* copy or mkdir operations ran or failed.
C6_NoDeleteKeepsExtras ==
    (~options.Delete /\ g.runs >= 1 /\ pc \notin {"call", "scanSource"})
        => \A p \in Paths \ DOMAIN sourceFiles :
              g.dst0.tree[p].kind # "none"
                  => disk[destination].tree[p] = g.dst0.tree[p]

\* a run without Delete has returned after a successful copy, a failed
\* operation and with a destination-only file still in place
C6_Witness ==
    /\ Returned
    /\ ~options.Delete
    /\ ~g.dry
    /\ g.okCopy >= 1
    /\ g.failed >= 1
    /\ \E p \in Paths \ DOMAIN sourceFiles :
          /\ g.dst0.tree[p].kind = "file"
          /\ disk[destination].tree[p] = g.dst0.tree[p]

\* the roots of the call are accessible: the source can be read, the
\* destination was there or has been made
RootsAccessible ==
    /\ disk[source].status = "ok"
    /\ g.dst0.status = "ok" \/ disk[destination].status = "ok" \/ g.dry

ComparedRegular ==
    /\ pc = "compared"
    /\ "a" \in DOMAIN destFiles
    /\ ~sourceFiles["a"].IsDir
    /\ ~destFiles["a"].IsDir

\* both entries carry a digest
BothDigests ==
    /\ sourceFiles["a"].Checksum # NoChecksum
    /\ destFiles["a"].Checksum # NoChecksum

\* the source is strictly newer or the sizes differ
MTimeRule ==
    \/ sourceFiles["a"].ModTime > destFiles["a"].ModTime
    \/ sourceFiles["a"].Size # destFiles["a"].Size

\* C8: with Options.Checksum set and the method left at its default, two
\* regular files at the same path with equal size, a destination mtime not
\* older than the source's and different digests are judged to need sync.
C8_ChecksumOptionCompares ==
    (ComparedRegular /\ g.given.Checksum /\ g.given.Method = ""
        /\ BothDigests
        /\ sourceFiles["a"].Checksum # destFiles["a"].Checksum
        /\ sourceFiles["a"].Size = destFiles["a"].Size
        /\ destFiles["a"].ModTime >= sourceFiles["a"].ModTime)
        => result = "sync"

\* C9: under method mtime, and under an empty or unrecognised method, for
\* two regular files at the same path shouldSync returns true iff the
\* source mtime is strictly after the destination's or the sizes differ.
C9_MTimeRule ==
    (ComparedRegular /\ g.given.Method \in {"mtime", "", "bogus"})
        => (result = "sync" <=> MTimeRule)

\* under an unrecognised method, equal mtimes and equal sizes of files that
\* differ in content have been judged not to need sync
C9_Witness ==
    /\ ComparedRegular
    /\ g.given.Method = "bogus"
    /\ sourceFiles["a"].ModTime = destFiles["a"].ModTime
    /\ sourceFiles["a"].Size = destFiles["a"].Size
    /\ disk[source].tree["a"].content # disk[destination].tree["a"].content
    /\ result = "skip"

\* C10: under method checksum, for two regular files at the same path: if
\* both entries carry a digest, shouldSync returns true iff the digests
\* differ; if either lacks a digest, the result is that of the mtime rule,
\* so a missing digest is never taken as equal to a present one.
C10_ChecksumRule ==
    (ComparedRegular /\ g.given.Method = "checksum")
        => IF BothDigests
           THEN result = "sync"
                    <=> sourceFiles["a"].Checksum # destFiles["a"].Checksum
           ELSE result = "sync" <=> MTimeRule

\* under method checksum, a source entry with a digest and a destination
\* entry without one, of equal size and mtime, have been judged not to need
\* sync
C10_Witness ==
    /\ ComparedRegular
    /\ g.given.Method = "checksum"
    /\ sourceFiles["a"].Checksum # NoChecksum
    /\ destFiles["a"].Checksum = NoChecksum
    /\ ~MTimeRule
    /\ result = "skip"

\* C11: under method size, for two regular files at the same path
\* shouldSync returns true iff the sizes differ, whatever the mtimes and
\* the digests are.
C11_SizeRule ==
    (ComparedRegular /\ g.given.Method = "size")
        => (result = "sync"
                <=> sourceFiles["a"].Size # destFiles["a"].Size)

\* under method size, a newer source of equal size and different digest has
\* been judged not to need sync
C11_Witness ==
    /\ ComparedRegular
    /\ g.given.Method = "size"
    /\ sourceFiles["a"].ModTime > destFiles["a"].ModTime
    /\ sourceFiles["a"].Size = destFiles["a"].Size
    /\ BothDigests
    /\ sourceFiles["a"].Checksum # destFiles["a"].Checksum
    /\ result = "skip"

\* C12: under every method, shouldSync returns true when the source path is
\* absent from the destination map, true when the two entries differ in
\* type, and false when both are directories, whatever size, mtime and
\* digest are.
C12_StructuralRules ==
    pc = "compared"
        => IF "a" \notin DOMAIN destFiles THEN result = "sync"
           ELSE IF sourceFiles["a"].IsDir # destFiles["a"].IsDir
                THEN result = "sync"
           ELSE sourceFiles["a"].IsDir => result = "skip"

\* two directories, the source one newer, have been judged not to need sync
\* under method mtime
C12_Witness ==
    /\ pc = "compared"
    /\ g.given.Method = "mtime"
    /\ "a" \in DOMAIN destFiles
    /\ sourceFiles["a"].IsDir
    /\ destFiles["a"].IsDir
    /\ sourceFiles["a"].ModTime > destFiles["a"].ModTime
    /\ result = "skip"

\* C17: when Sync is called twice on the same Syncer, the counters and the
\* error list at the end of the second call reflect the second call's work
\* only.
C17_StatsPerCall ==
    (Returned /\ g.runs >= 2)
        => /\ stats.FilesCopied = g.okCopy
           /\ stats.DirsCreated = g.okMkdir
           /\ stats.FilesChecked = Cardinality(DOMAIN sourceFiles)
                                       + Cardinality(DOMAIN destFiles)

\* the source entries shouldSync accepts
ToSync ==
    {p \in DOMAIN sourceFiles :
        shouldSync(options, sourceFiles[p], destFiles)}

RECURSIVE SumSizes(_)
\* the sum of the scanned sizes of a set of source entries
SumSizes(S) ==
    IF S = {} THEN 0
    ELSE LET p == CHOOSE q \in S : TRUE
         IN sourceFiles[p].Size + SumSizes(S \ {p})

\* the files and the directories among the entries to sync
FilesToSync == {p \in ToSync : ~sourceFiles[p].IsDir}
DirsToSync == {p \in ToSync : sourceFiles[p].IsDir}

\* C18: a dry-run directory-to-directory Sync reports in FilesToCopy,
\* BytesToCopy, DirsToCreate what a non-dry-run Sync of the same inputs
\* reports in FilesCopied, BytesCopied, DirsCreated when no operation
\* fails (both are the count, the byte total and the count of the entries
\* shouldSync accepts), and the dry run leaves FilesCopied, BytesCopied,
\* DirsCreated and FilesDeleted at zero.
C18_PreviewMatchesRun ==
    (Returned /\ result = "nil")
        => /\ g.dry =>
                /\ stats.FilesToCopy = Cardinality(FilesToSync)
                /\ stats.BytesToCopy = SumSizes(FilesToSync)
                /\ stats.DirsToCreate = Cardinality(DirsToSync)
                /\ stats.FilesCopied = 0
                /\ stats.BytesCopied = 0
                /\ stats.DirsCreated = 0
                /\ stats.FilesDeleted = 0
           /\ (~g.dry /\ g.failed = 0) =>
                /\ stats.FilesCopied = Cardinality(FilesToSync)
                /\ stats.BytesCopied = SumSizes(FilesToSync)
                /\ stats.DirsCreated = Cardinality(DirsToSync)

\* a dry run with Delete set has returned after planning a copy, a mkdir
\* and a deletion
C18_Witness ==
    /\ Returned
    /\ g.dry
    /\ options.Delete
    /\ stats.FilesToCopy >= 1
    /\ stats.DirsToCreate >= 1
    /\ stats.FilesToDelete >= 1

\* C19: with Recursive off, the scanned map holds exactly the top-level
\* entries of the root, and no entry at depth two or deeper, file or
\* directory.
C19_TopLevelOnly ==
    (pc = "scanDest" /\ ~options.Recursive)
        => DOMAIN sourceFiles =
               {p \in Paths : Parent(p) = "."
                                 /\ disk[source].tree[p].kind # "none"}

\* C20: for every combination of compression and encryption, Create(D)
\* followed by Extract into an empty directory with the same options
\* succeeds and gives the same paths, types and sizes as D and the same
\* mtimes on regular files.
C20_RoundTrip ==
    (pc = "roundDone" /\ g.faults = 0
        /\ (options.GPGEncrypt => options.GPGKeyID # ""))
        => /\ result = "nil"
           /\ \A p \in Paths :
                /\ KindAt(destination, p) = KindAt(source, p)
                /\ KindAt(source, p) = "file"
                      => disk[destination].tree[p] = disk[source].tree[p]

\* the copy pass is over and the sweep has not begun
PoolOver ==
    \/ pc = "delete" /\ toDelete = DeleteSet(options, destFiles)
    \/ pc = "returned" /\ result = "nil" /\ ~options.Delete

\* the step the environment made fail at entry p, "none" if it made none
FaultAt(p) ==
    IF \E x \in g.injected : x[1] = p
    THEN CHOOSE x \in g.injected : x[1] = p
    ELSE <<p, "none", 0>>

RECURSIVE OneByOne(_, _, _)
\* the queued entries synced one after the other in walk order, each
\* syncFile call whole, with the same steps made to fail: the tree and the
\* statistics afterwards
OneByOne(order, t, st) ==
    IF order = <<>> THEN [tree |-> t, st |-> st]
    ELSE LET p == Head(order) IN
         IF p \notin g.queued THEN OneByOne(Tail(order), t, st)
         ELSE LET f == FaultAt(p)
                  out == syncFile(disk[source].tree, t, st, sourceFiles[p],
                                  options, f[2], f[3])
              IN OneByOne(Tail(order), out.tree,
                          IF out.err = NoErr THEN out.st
                          ELSE addError(out.st, out.err))

\* the destination tree the copy pass started from
PoolStartTree ==
    IF g.dst0.status = "ok" THEN g.dst0.tree ELSE EmptyTree

\* the totals of RunStatistics the copy pass writes
PoolTotals ==
    {"FilesCopied", "BytesCopied", "DirsCreated", "FilesToCopy",
     "BytesToCopy", "DirsToCreate"}

\* C13: for the same source map, initial destination and failing steps, the
\* pool with one worker and with more than one gives the same destination
\* tree and the same totals under every interleaving: each run ends as the
\* one-by-one run of the queued entries does.
C13_PoolOutcomeIsSequential ==
    PoolOver =>
        LET r == OneByOne(WalkOrder, PoolStartTree, ZeroStats) IN
        /\ disk[destination].tree = r.tree
        /\ \A f \in PoolTotals : stats[f] = r.st[f]
        /\ Len(stats.Errors) = Len(r.st.Errors)

\* two workers have synced three entries, one of them with a failed step
C13_Witness ==
    /\ PoolOver
    /\ options.Threads >= 2
    /\ Cardinality(g.queued) >= 3
    /\ g.injected # {}
    /\ g.okCopy >= 1
    /\ g.okMkdir >= 1

\* the regular files the copy pass has copied
CopiedFiles == {p \in g.written : ~sourceFiles[p].IsDir}

\* C14: no statistics update is lost or torn under concurrent workers: when
\* processFiles has returned, FilesCopied is the number of copies that
\* completed and BytesCopied the sum of their scanned sizes; and whenever
\* the mutex is free, both counters stand for the same set of copies.
C14_CountersExact ==
    /\ (g.runs >= 1 /\ pc \in {"delete", "returned"} /\ result # "error")
          => /\ stats.FilesCopied = Cardinality(CopiedFiles)
             /\ stats.BytesCopied = SumSizes(CopiedFiles)
    /\ (g.runs >= 1 /\ mu = 0)
          => /\ stats.FilesCopied = Cardinality(g.counted)
             /\ stats.BytesCopied = SumSizes(g.counted)

\* one worker is inside incrementCopied, the file counted and the bytes
\* not yet, while another waits for the mutex
C14_Witness ==
    /\ pc = "pool"
    /\ \E w \in Workers, v \in Workers :
          /\ mu = w
          /\ wpc[w] = "read"
          /\ wpc[v] = "lock"
          /\ stats.FilesCopied = 1
          /\ stats.BytesCopied = 0

\* no worker is running and nothing is left in the queue
PoolQuiet ==
    /\ toQueue = {}
    /\ workChan = <<>>
    /\ mu = 0
    /\ \A w \in Workers :
          /\ wpc[w] \in {"off", "done"}
          /\ item[w] = NoItem
          /\ reg[w].todo = <<>>

\* C15: the deletion pass begins, and removes, only after every worker of
\* the copy pass has exited and every queued entry has been processed; no
\* copy or mkdir is in flight or starts during or after it.
C15_SweepAfterPool ==
    (g.runs >= 1 /\ (pc \in {"delete", "returned"} \/ g.removed # {}))
        => PoolQuiet

\* the sweep has removed an entry after two workers copied
C15_Witness ==
    /\ pc = "delete"
    /\ g.removed # {}
    /\ options.Threads >= 2
    /\ Cardinality(g.queued) >= 2
    /\ g.okCopy >= 1

\* C16: whenever a worker is about to create, or is writing, the
\* destination file of entry p, the directory parent(p) exists in the
\* destination, whether or not the directory's own entry has been processed.
C16_ParentExists ==
    \A w \in Workers :
        wpc[w] \in {"create", "write"}
            => \/ Parent(item[w].Path) = "."
               \/ KindAt(destination, Parent(item[w].Path)) = "dir"

\* a worker writes a/b into a directory the destination did not have, while
\* another worker holds the entry of that directory, not yet processed
C16_Witness ==
    /\ pc = "pool"
    /\ g.dst0.tree["a"].kind = "none"
    /\ \E w \in Workers, v \in Workers :
          /\ wpc[w] = "write"
          /\ item[w].Path = "a/b"
          /\ wpc[v] = "sync"
          /\ item[v].Path = "a"

\* C21: in an archive-to-directory Sync with signing configured, a
\* signature file that is present and does not verify makes Sync return an
\* error, and no entry is extracted into the destination.
C21_BadSignatureStops ==
    (Returned /\ g.given.GPGSign /\ ~g.dry
        /\ SignatureOf(disk, source).status = "badsig")
        => /\ result = "error"
           /\ disk[destination].tree = EmptyTree

\* the archive endpoint of the running call
ArchiveEnd == IF IsTarFile(source) THEN source ELSE destination

\* the flags the claim calls effective: configured, or implied by the name
EffectiveCompression ==
    options.TarCompress \/ ParseTarOptions(ArchiveEnd).Compression
EffectiveEncryption ==
    options.GPGEncrypt \/ ParseTarOptions(ArchiveEnd).GPGEncrypt

\* C22: creation and extraction through Sync both work with compression =
\* configured or implied by the name, and encryption = configured or implied
\* by the name; so an archive that Sync created with configured compression
\* or encryption under a name that implies neither is extracted again by
\* Sync with the same configuration.
C22_EffectiveFlags ==
    /\ pc = "create" =>
          /\ CreateOptions(options, destination).Compression
                = EffectiveCompression
          /\ CreateOptions(options, destination).GPGEncrypt
                = EffectiveEncryption
    /\ pc = "extract" =>
          /\ ExtractOptions(options, source).Compression
                = EffectiveCompression
          /\ ExtractOptions(options, source).GPGEncrypt
                = EffectiveEncryption
    /\ (Returned /\ g.runs = 2 /\ g.faults = 0 /\ ~g.dry
            /\ ~(EffectiveCompression /\ EffectiveEncryption))
          => /\ result = "nil"
             /\ \A p \in Paths :
                   KindAt(destination, p) = KindAt(SrcDir, p)

\* the running call is Sync(archive, archive)
ArchiveToArchive == IsTarFile(source) /\ IsTarFile(destination)

C24_ModePreserved ==
    (Returned /\ ~g.dry)
        => \A p \in g.written :
              KindAt(destination, p) = "file"
                  => disk[destination].tree[p].mode
                        = disk[source].tree[p].mode

\* the endpoint names that end in one of the six archive suffixes, in any
\* case
ArchiveNamed(stem) == {<<stem>> \o e : e \in ArchiveEndings}

\* C25: Sync chooses its flow from the suffixes of the two names alone, in
\* any case: extraction iff only the source ends in .tar, .tar.gz, .tgz,
\* .tar.gpg, .tar.gz.gpg or .tgz.gpg, creation iff only the destination
\* does, archive to archive iff both do, and the scan, compare, copy, delete
\* flow iff neither does.
C25_FlowBySuffix ==
    pc # "call" =>
        LET sourceTar == source \in ArchiveNamed("in")
            destTar == destination \in ArchiveNamed("out")
        IN /\ pc = "extract" <=> (sourceTar /\ ~destTar)
           /\ pc = "create" <=> (~sourceTar /\ destTar)
           /\ pc = "tarToTar" <=> (sourceTar /\ destTar)
           /\ pc = "scanSource" <=> (~sourceTar /\ ~destTar)

\* extraction has been chosen for a source named in mixed case and a
\* destination with an archive extension inside its name
C25_Witness ==
    /\ pc = "extract"
    /\ source = <<"in", ".Tar", ".GZ">>
    /\ destination = <<"out", ".tar", ".bak">>

\* C26: processFiles ends, for every number of source entries, zero
\* included, every worker count and every pattern of failing entries: the
\* producer gets through the queue and closes it, no worker stays with an
\* entry or an error to send for ever, the error channel is closed only
\* after every worker has exited and stays closed, and the collector loop
\* then ends.
C26_PoolTerminates ==
    /\ (pc = "pool") ~> (workClosed /\ toQueue = {})
    /\ \A w \in Workers : (wpc[w] = "sync") ~> (wpc[w] # "sync")
    /\ [](errClosed => \A w \in Workers : wpc[w] \in {"off", "done"})
    /\ [][errClosed => errClosed']_vars
    /\ (pc = "pool") ~> (pc = "delete" /\ errClosed /\ errorChan = <<>>)

\* processFiles has returned after two workers sent two errors
C26_Witness ==
    /\ pc = "delete"
    /\ options.Threads >= 2
    /\ Cardinality(g.queued) >= 2
    /\ g.failed >= 2
    /\ Len(stats.Errors) >= 2

\* C27: under every interleaving, no source entry is handed to a worker
\* more than once, none that the comparator rejects is handed to a worker
\* at all, and when the copy pass is over every entry the comparator accepts
\* has been handed to a worker, whatever entries failed.
C27_EachEntryOnce ==
    /\ \A p \in Paths :
          g.taken[p] <= (IF p \in ToSync THEN 1 ELSE 0)
    /\ PoolOver =>
          /\ \A p \in ToSync : g.taken[p] = 1
          /\ \A w \in Workers : item[w] = NoItem

\* two workers have been through two or more entries, one of which failed
\* and one of which was copied or created
C27_Witness ==
    /\ PoolOver
    /\ options.Threads >= 2
    /\ Cardinality(ToSync) >= 2
    /\ g.failed >= 1
    /\ g.okCopy + g.okMkdir >= 1

\* the destination entries that the source does not have
Extras == DOMAIN destFiles \ DOMAIN sourceFiles

\* the regular files among them
ExtraFiles == {p \in Extras : ~destFiles[p].IsDir}

RECURSIVE SumDestSizes(_)
\* the sum of the scanned sizes of a set of destination entries
SumDestSizes(S) ==
    IF S = {} THEN 0
    ELSE LET p == CHOOSE q \in S : TRUE
         IN destFiles[p].Size + SumDestSizes(S \ {p})

\* C28: after a non-dry-run Sync with Delete, FilesDeleted and BytesDeleted
\* do not depend on the order in which the destination map is ranged over:
\* they are the number and the byte total of the destination-only regular
\* files, which is what a dry run of the same inputs reports in
\* FilesToDelete and BytesToDelete, also when a destination-only directory
\* holds destination-only files.
C28_DeletedCountsStable ==
    (Returned /\ result = "nil" /\ options.Delete /\ g.faults = 0)
        => IF g.dry
           THEN /\ stats.FilesToDelete = Cardinality(ExtraFiles)
                /\ stats.BytesToDelete = SumDestSizes(ExtraFiles)
           ELSE /\ stats.FilesDeleted = Cardinality(ExtraFiles)
                /\ stats.BytesDeleted = SumDestSizes(ExtraFiles)

\* printPreviewSummary: totalOperations
totalOperations ==
    stats.FilesToCopy + stats.FilesToDelete + stats.DirsToCreate

\* C29: in a dry run with Delete, every destination path that the source
\* map lacks, regular file or directory, is counted in FilesToDelete, so
\* the preview's total of planned operations is zero ("no changes needed")
\* only when a real run would remove nothing.
C29_PreviewCountsEveryExtra ==
    (Returned /\ result = "nil" /\ g.dry /\ options.Delete)
        => /\ stats.FilesToDelete = Cardinality(Extras)
           /\ totalOperations = 0 => Extras = {}

\* the files whose checksum could not be computed in the scan
ChecksumFailed == {x[1] : x \in {y \in g.injected : y[2] = "checksum"}}

\* C30: when the checksum of a file cannot be computed in a scan that needs
\* checksums, one error is appended to Errors, the scan goes on with the
\* other entries, and the file is left out of the map.
C30_UnreadableFileSkipped ==
    (pc = "scanDest" /\ ChecksumFailed # {})
        => /\ Len(stats.Errors) = Cardinality(ChecksumFailed)
           /\ \A p \in DOMAIN buildFileMap(disk[source], options) :
                 p \notin ChecksumFailed => p \in DOMAIN sourceFiles
           /\ \A p \in ChecksumFailed : p \notin DOMAIN sourceFiles

\* the warnings about broken links among the recorded errors
LinkWarned == {stats.Errors[i][2] : i \in
                  {j \in DOMAIN stats.Errors :
                      stats.Errors[j][1] = "Warning: broken symlink"}}

\* C31: for every broken symbolic link the scan comes to, under every
\* comparison method and with Verbose set or not: with SkipBrokenLinks the
\* link is not in the map and no error is recorded for it; without it, a
\* warning is in Errors and the link is in the map with no checksum.
C31_BrokenLinkPolicy ==
    pc = "scanDest" =>
        \A p \in BrokenLinks(disk[source], options) :
            IF options.SkipBrokenLinks
            THEN p \notin DOMAIN sourceFiles /\ stats.Errors = <<>>
            ELSE /\ p \in LinkWarned
                 /\ p \in DOMAIN sourceFiles
                 /\ sourceFiles[p].Checksum = NoChecksum

\* the regular files of the source that this run has copied
CopiedNow == {p \in g.written : KindAt(source, p) = "file"}

\* the paths for which os.Chtimes failed after the copy
TimeNotSet ==
    {stats.Errors[i][2] : i \in
        {j \in DOMAIN stats.Errors :
            stats.Errors[j][1] = "Failed to preserve timestamps"}}

\* C32: in a run that is not a dry run, a regular file that was copied has
\* in the destination exactly the content of the source file, also where a
\* longer file was there before, and the modification time of the source
\* file; if only os.Chtimes failed, an error is recorded, the content is the
\* copied one all the same and the file is counted in FilesCopied.
C32_CopyIsWholeFile ==
    (g.runs >= 1 /\ ~g.dry) =>
        /\ \A p \in CopiedNow :
              /\ KindAt(destination, p) = "file"
              /\ disk[destination].tree[p].content
                    = disk[source].tree[p].content
              /\ p \notin TimeNotSet =>
                    disk[destination].tree[p].mtime
                        = disk[source].tree[p].mtime
        /\ TimeNotSet \subseteq CopiedNow
        /\ stats.FilesCopied = Cardinality(CopiedNow)

\* a shorter source file has been copied over a longer destination file and
\* given the source's time, and the time of another copied file could not
\* be set
C32_Witness ==
    /\ Returned
    /\ "d" \in CopiedNow \ TimeNotSet
    /\ Len(g.dst0.tree["d"].content) > Len(disk[source].tree["d"].content)
    /\ "a" \in TimeNotSet
    /\ stats.FilesCopied = 2

\* the entries of the destination archive before the call
OldDest == {p \in Paths : g.dst0.tree[p].kind # "none"}

\* the entries of the source archive
InSource == {p \in Paths : KindAt(source, p) # "none"}

\* C33: after an archive-to-archive Sync that is not a dry run and returns
\* nil, the destination archive has been written anew from the synchronised
\* temporary directory: every entry of the source archive is in it, and an
\* entry that only the old destination archive had is in it iff Delete is
\* not set.
C33_ArchiveRecreated ==
    (Returned /\ g.runs >= 1 /\ ArchiveToArchive /\ result = "nil" /\ ~g.dry
        /\ g.faults = 0)
        => /\ disk[destination].status = "archive"
           /\ \A p \in InSource : KindAt(destination, p) # "none"
           /\ \A p \in OldDest \ InSource :
                 KindAt(destination, p) # "none" <=> ~options.Delete

\* the name ends in .tar.gz or .tgz, followed or not by .gpg, in any case
GzipFamily(path) ==
    LET l == ToLower(path) IN
    \/ HasSuffix(l, <<".tar", ".gz">>)
    \/ HasSuffix(l, <<".tgz">>)
    \/ HasSuffix(l, <<".tar", ".gz", ".gpg">>)
    \/ HasSuffix(l, <<".tgz", ".gpg">>)

\* the name ends in .gpg, in any case
GpgEnding(path) == HasSuffix(ToLower(path), <<".gpg">>)

\* C34: for every name that IsTarFile accepts, ParseTarOptions gives
\* Compression iff the name ends in .tar.gz or .tgz (followed or not by
\* .gpg), GPGEncrypt iff it ends in .gpg, and GPGSign false, whatever comes
\* before the ending; so an archive that Sync creates with nothing
\* configured has the gzip layer iff its name has such an ending.
C34_OptionsFromSuffix ==
    IsTarFile(destination) =>
        /\ ParseTarOptions(destination).Compression = GzipFamily(destination)
        /\ ParseTarOptions(destination).GPGEncrypt = GpgEnding(destination)
        /\ ParseTarOptions(destination).GPGSign = FALSE
        /\ (Returned /\ result = "nil" /\ ~g.dry) =>
              disk[destination].layers =
                  (IF GzipFamily(destination) THEN <<"gzip">> ELSE <<>>)
                      \o (IF GpgEnding(destination) THEN <<"gpg">> ELSE <<>>)

\* the paths for which the sweep recorded a failed deletion
DeleteErrors ==
    {stats.Errors[i][2] : i \in
        {j \in DOMAIN stats.Errors : stats.Errors[j][1] = "Failed to delete"}}

\* C35: when the deletion sweep of a run that is not a dry run is over, it
\* has been through every destination-only path, and each of them was
\* either removed by its own deletion or has a message in Errors, also a
\* path that could no longer be stat'ed because it had gone already.
C35_FailedDeletionsLogged ==
    (Returned /\ result = "nil" /\ ~g.dry /\ options.Delete)
        => \A p \in Extras : p \in g.removed \/ p \in DeleteErrors

\* the running call is Sync(archive, directory)
ArchiveToDirectory == IsTarFile(source) /\ ~IsTarFile(destination)

\* C36: after an archive-to-directory Sync with Delete that is not a dry
\* run and returns nil, the destination directory holds exactly the paths of
\* the archive: what only the directory had is gone.
C36_ExtractHonoursDelete ==
    (Returned /\ g.runs >= 1 /\ ArchiveToDirectory /\ result = "nil"
        /\ ~g.dry /\ options.Delete /\ g.faults = 0)
        => \A p \in Paths :
              KindAt(destination, p) # "none" <=> KindAt(source, p) # "none"

\* C37: with signing on, when Create has returned nil the signature file
\* next to the archive verifies against the finished archive file, the
\* signature having been made after the tar, encrypting and gzip writers
\* were closed; so Extract with the same options, called right after
\* Create, does not fail on the signature.
C37_SignatureOfFinishedArchive ==
    /\ (pc = "roundExtract" /\ options.GPGSign)
          => SignatureOf(disk, RoundTar).status = "sig"
    /\ (pc = "roundDone" /\ options.GPGSign
            /\ SignatureOf(disk, RoundTar).status # "missing"
            /\ ~(options.TarCompress /\ options.GPGEncrypt))
          => result = "nil"

\* C38: after an archive-to-directory Sync into a directory that had files
\* already, every regular file of the archive has in the directory exactly
\* the archived content, also where the file that was there before was
\* longer than the archived one.
C38_ExtractedContentExact ==
    (Returned /\ g.runs >= 1 /\ ArchiveToDirectory /\ result = "nil"
        /\ ~g.dry)
        => \A p \in Paths :
              KindAt(source, p) = "file"
                  => /\ KindAt(destination, p) = "file"
                     /\ disk[destination].tree[p].content
                           = disk[source].tree[p].content

\* the deletion sweep leaves the destination entry at q as it is
SweepKeeps(q) ==
    pc = "delete" => disk'[destination].tree[q] = disk[destination].tree[q]

\* C39: the deletion sweep removes no path of the source map and no
\* directory above one, and no step of the sweep changes the destination
\* entry at a path of the source map; so what the copy pass of a call has
\* created or written is still there at every later state of the call.
C39_SweepSparesSource ==
    /\ [](\A p \in g.removed :
            /\ p \notin DOMAIN sourceFiles
            /\ \A q \in DOMAIN sourceFiles : ~IsUnder(q, p))
    /\ [][\A q \in DOMAIN sourceFiles : SweepKeeps(q)]_vars
    /\ [](\A p \in g.written : KindAt(destination, p) # "none")

\* the copy pass has made a directory and a file below it, and the sweep
\* has removed the one path that only the destination had
C39_Witness ==
    /\ Returned
    /\ g.written = {"a", "a/b"}
    /\ g.removed = {"d"}
    /\ KindAt(destination, "a/b") = "file"
    /\ KindAt(destination, "d") = "none"

\* the paths whose copy failed in copyFile
CopyFailed ==
    {stats.Errors[i][2] : i \in
        {j \in DOMAIN stats.Errors : stats.Errors[j][1] = "failed to copy file"}}

\* C40: when the copy of a regular file has failed, because the source
\* could not be opened or the stream of bytes broke off, the file that was
\* in the destination at that path before the call is still there with its
\* content and modification time.
C40_FailedCopyKeepsOld ==
    (Returned /\ ~g.dry)
        => \A p \in CopyFailed :
              g.dst0.tree[p].kind = "file"
                  => disk[destination].tree[p] = g.dst0.tree[p]

====
